---- MODULE Spec2Model ----
(***************************************************************************)
(* A model of the mock-backend core:                                       *)
(*   - utils/stream_protocol.py  generate_stream (the stream encoder)      *)
(*   - utils/langgraph_content.py  the message sanitizer, validator and    *)
(*     last-complete-turn extraction                                       *)
(***************************************************************************)
EXTENDS Integers, Sequences, FiniteSets, TLC

\* ------------------------------------------------------------------ bounds
\* Events the source hands out in one run; announced tool calls and argument
\* chunks the events of one run carry in total.
MaxEvents == 2
MaxParts == 3
\* Messages in a list handed to the sanitizer or the turn extraction.
MaxMsgs == 4

\* ---------------------------------------------------------- value universe
None == "None"
Ids == {"t1", "t2"}
\* A tool call whose name is "" is a placeholder.
Names == {"", "search"}
\* Texts and argument fragments are sequences of characters.
Texts == {<<>>, <<"a">>, <<"b", " ">>}
ArgTexts == {<<>>, <<"x">>}
\* Optional[int]: <<>> is None, <<p>> is the integer p.
ChunkIndexes == {<<>>, <<-1>>, <<0>>, <<1>>}
\* the content of a ToolMessage
Results == {"", "ok"}
ToolCallValues == [id : Ids, name : Names]
ChunkValues == [args : ArgTexts, index : ChunkIndexes]

RECURSIVE SeqsUpTo(_, _)
SeqsUpTo(S, n) ==
    IF n = 0 THEN {<<>>}
    ELSE LET shorter == SeqsUpTo(S, n - 1)
         IN  shorter \cup {Append(s, x) : s \in {t \in shorter : Len(t) = n - 1}, x \in S}

ToolCallLists == SeqsUpTo(ToolCallValues, MaxParts)

VARIABLES
    \* generate_stream: the generator's position and whether it is suspended
    \* at a yield
    pc, atYield,
    \* the frames handed to the consumer so far, and for each frame the
    \* number of the event it was derived from (0: from no event)
    frames, origin,
    \* generate_stream's locals
    tool_calls, current_message_tool_calls, accumulated_text, token_count,
    \* the rest of msg.tool_calls still to iterate
    todo,
    \* graph.stream: events handed out, tool calls and chunks read so far,
    \* the source's length and the pull at which it raises (0: never)
    nEvents, nParts, srcLen, srcFailAt,
    \* the exception the try block caught ("none" when it caught none)
    raised,
    \* what the step just taken read from the source: the text of an
    \* increment or a chunk of its tool_call_chunks
    read,
    \* the ids of the real tool calls that the increments of the current
    \* assistant message have announced, and whether an assistant message
    \* has begun since the last of them
    announced, newMessage,
    \* langgraph_content.py: the message list handed to a function, the list
    \* it returned, the list returned by the call before, and the last call
    messages, result, prev, op,
    \* what validate_message_sequence returned last
    valid

encVars == <<pc, atYield, frames, origin, tool_calls, current_message_tool_calls,
             accumulated_text, token_count, todo, nEvents, nParts, srcLen,
             srcFailAt, raised, read, announced, newMessage>>

msgVars == <<messages, result, prev, op, valid>>

VARIABLES
    \* lib/database.py: the attachments table, attachment id -> row
    store,
    \* change_file_to_url: where the call stands
    rpc,
    \* the caller's message list as read so far: the values it was given
    \* with, and the caller's objects as they are now
    given, inMsgs,
    \* change_file_to_url's and process_*_message's locals
    processed_messages, new_content,
    \* the calls made to db_manager.get_attachment and
    \* get_file_temporary_link, over all calls of change_file_to_url, and the
    \* length the log had when the current call began
    callLog, callBase,
    \* the messages and content items read so far, over all calls
    nRead

resVars == <<store, rpc, given, inMsgs, processed_messages, new_content,
             callLog, callBase, nRead>>

VARIABLES
    \* the blob storage: the names of the blobs it holds
    blobs,
    \* the rows of the attachments table as they were inserted, kept after
    \* their deletion
    created,
    \* int(time.time())
    now,
    \* the outcome of the request the step just taken handled
    reply

attVars == <<blobs, created, now, reply>>

VARIABLES
    \* lib/database.py: the conversations table
    conversations,
    \* the outcome of the conversation request the step just taken handled
    convReply

convVars == <<conversations, convReply>>

vars == <<encVars, msgVars, resVars, attVars, convVars>>

\* ------------------------------------------------------------------ frames
FrameStart == [tag |-> "f", id |-> "messageId", val |-> None]
FrameText(content) == [tag |-> "0", id |-> None, val |-> content]
FrameToolResult(id, content) == [tag |-> "a", id |-> id, val |-> content]
FrameToolCallStart(id, name) == [tag |-> "b", id |-> id, val |-> name]
FrameArgsDelta(id, args) == [tag |-> "c", id |-> id, val |-> args]
FrameFinish(n) ==
    [tag |-> "d", id |-> "stop",
     val |-> [promptTokens |-> n, completionTokens |-> n]]
FrameError(e) == [tag |-> "3", id |-> None, val |-> e]

\* ---------------------------------------------------------------- helpers
IsSpace(c) == c = " "

\* len(content.split()): the number of maximal runs of non-space characters
WordCount(s) ==
    Cardinality({i \in 1..Len(s) :
                    /\ ~IsSpace(s[i])
                    /\ (i = 1 \/ IsSpace(s[i - 1]))})

\* HasRealToolCalls counting a placeholder as a tool call
HasAnyToolCalls(calls) == calls # <<>>

\* any(tool_call.get('name', '') != "" for tool_call in msg.tool_calls)
HasRealToolCalls(calls) == \E i \in 1..Len(calls) : calls[i].name # ""

\* list[p] of Python, p an integer: a negative p counts from the end
PyIndex(list, p) ==
    IF p >= 0
    THEN [err |-> "none", id |-> list[p + 1]]
    ELSE IF Len(list) + p >= 0
         THEN [err |-> "none", id |-> list[Len(list) + p + 1]]
         ELSE [err |-> "IndexError", id |-> None]

\* lines 82-87: the invocation id a chunk's index maps to, None when the
\* index is not below the list's length; comparing None with an integer
\* raises TypeError
LookupToolCallId(index, list) ==
    IF index = <<>>
    THEN [err |-> "TypeError", id |-> None]
    ELSE IF index[1] < Len(list)
         THEN PyIndex(list, index[1])
         ELSE [err |-> "none", id |-> None]

\* the step handled no attachment request
NoReply ==
    [route |-> "none", userid |-> "", attachment_id |-> <<>>, status |-> 0,
     blob_url |-> [scheme |-> "", rest |-> <<>>, sig |-> 0],
     url |-> [scheme |-> "", rest |-> <<>>, sig |-> 0], made |-> <<>>]

\* the step handled no conversation request
NoConvReply ==
    [route |-> "none", userid |-> "", conversation_id |-> "", body |-> FALSE,
     outcome |-> "none", stream |-> FALSE]

\* what a step read: nothing, msg.content of an increment, or a chunk
NoRead == [kind |-> "none", text |-> <<>>, index |-> <<>>]
ReadContent(content) == [kind |-> "ai", text |-> content, index |-> <<>>]
ReadChunk(chunk) == [kind |-> "chunk", text |-> chunk.args, index |-> chunk.index]
ReadTool(id, content) == [kind |-> "tool", text |-> <<id, content>>, index |-> <<>>]

\* ---------------------------------------------------------------- source
SourceRaises == srcFailAt = nEvents + 1
SourceHasNext == nEvents < srcLen /\ ~SourceRaises
SourceExhausted == nEvents = srcLen /\ ~SourceRaises

\* ------------------------------------------------------------------- Init
\* no attachment exists and change_file_to_url has not been called
\* no conversation exists
ConvIdle ==
    /\ conversations = {}
    /\ convReply = NoConvReply

ResIdle ==
    /\ store = {}
    /\ rpc = "idle"
    /\ given = <<>>
    /\ inMsgs = <<>>
    /\ processed_messages = <<>>
    /\ new_content = <<>>
    /\ callLog = <<>>
    /\ callBase = 0
    /\ nRead = 0
    /\ blobs = {}
    /\ created = {}
    /\ now = 0
    /\ reply = NoReply

\* no message function has been called
MsgIdle ==
    /\ messages = <<>>
    /\ result = <<>>
    /\ prev = <<>>
    /\ op = "none"
    /\ valid = FALSE

Init ==
    /\ MsgIdle
    /\ ResIdle
    /\ ConvIdle
    /\ pc = "created"
    /\ atYield = FALSE
    /\ frames = <<>>
    /\ origin = <<>>
    /\ tool_calls = <<>>
    /\ current_message_tool_calls = <<>>
    /\ accumulated_text = <<>>
    /\ token_count = 0
    /\ todo = <<>>
    /\ nEvents = 0
    /\ nParts = 0
    /\ srcLen \in 0..MaxEvents
    /\ srcFailAt \in 0..(srcLen + 1)
    /\ raised = "none"
    /\ read = NoRead
    /\ announced = <<>>
    /\ newMessage = TRUE

\* ---------------------------------------------------------------- actions
\* lines 11-19: the first resumption yields the message-start frame
Start ==
    /\ pc = "created"
    /\ frames' = Append(frames, FrameStart)
    /\ origin' = Append(origin, 0)
    /\ pc' = "pull"
    /\ atYield' = TRUE
    /\ UNCHANGED <<tool_calls, current_message_tool_calls, accumulated_text,
                   token_count, todo, nEvents, nParts, srcLen, srcFailAt, raised>>
    /\ read' = NoRead
    /\ UNCHANGED <<announced, newMessage>>
    /\ UNCHANGED <<msgVars, resVars, attVars, convVars>>

\* OnException with the finish frame sent from a finally clause
OnExceptionThenFinish(e) ==
    /\ frames' = frames \o <<FrameError(e), FrameFinish(token_count)>>
    /\ origin' = origin \o <<nEvents, nEvents>>
    /\ raised' = e
    /\ pc' = "end"
    /\ atYield' = TRUE
    /\ UNCHANGED <<tool_calls, current_message_tool_calls, accumulated_text,
                   token_count, todo, nEvents, nParts, srcLen, srcFailAt>>
    /\ UNCHANGED <<announced, newMessage>>
    /\ UNCHANGED <<msgVars, resVars, attVars, convVars>>

\* OnException with an except clause that swallows the exception
OnExceptionSilent(e) ==
    /\ raised' = e
    /\ pc' = "end"
    /\ atYield' = FALSE
    /\ UNCHANGED <<frames, origin, tool_calls, current_message_tool_calls,
                   accumulated_text, token_count, todo, nEvents, nParts, srcLen,
                   srcFailAt>>
    /\ UNCHANGED <<announced, newMessage>>
    /\ UNCHANGED <<msgVars, resVars, attVars, convVars>>

\* lines 101-104: an exception raised inside the try block
OnException(e) ==
    /\ frames' = Append(frames, FrameError(e))
    /\ origin' = Append(origin, nEvents)
    /\ raised' = e
    /\ pc' = "end"
    /\ atYield' = TRUE
    /\ UNCHANGED <<tool_calls, current_message_tool_calls, accumulated_text,
                   token_count, todo, nEvents, nParts, srcLen, srcFailAt>>
    /\ UNCHANGED <<announced, newMessage>>
    /\ UNCHANGED <<msgVars, resVars, attVars, convVars>>

\* line 22: graph.stream raises
PullRaise ==
    /\ pc = "pull"
    /\ SourceRaises
    /\ OnException("SourceError")
    /\ read' = NoRead

\* PullTool with a result frame only for an id that tool_calls knows
PullToolIfKnown ==
    /\ pc = "pull"
    /\ SourceHasNext
    /\ \E id \in Ids, content \in Results :
        /\ read' = ReadTool(id, content)
        /\ IF id \in DOMAIN tool_calls
           THEN /\ frames' = Append(frames, FrameToolResult(id, content))
                /\ origin' = Append(origin, nEvents + 1)
                /\ atYield' = TRUE
           ELSE /\ UNCHANGED <<frames, origin>>
                /\ atYield' = FALSE
    /\ nEvents' = nEvents + 1
    /\ UNCHANGED <<pc, tool_calls, current_message_tool_calls, accumulated_text,
                   token_count, todo, nParts, srcLen, srcFailAt, raised>>
    /\ UNCHANGED <<announced, newMessage>>
    /\ UNCHANGED <<msgVars, resVars, attVars, convVars>>

\* lines 27-30: a ToolMessage
PullTool ==
    /\ pc = "pull"
    /\ SourceHasNext
    /\ \E id \in Ids, content \in Results :
        /\ read' = ReadTool(id, content)
        /\ frames' = Append(frames, FrameToolResult(id, content))
    /\ origin' = Append(origin, nEvents + 1)
    /\ nEvents' = nEvents + 1
    /\ atYield' = TRUE
    /\ UNCHANGED <<pc, tool_calls, current_message_tool_calls, accumulated_text,
                   token_count, todo, nParts, srcLen, srcFailAt, raised>>
    /\ UNCHANGED <<announced, newMessage>>
    /\ UNCHANGED <<msgVars, resVars, attVars, convVars>>

\* lines 27, 32: a message that is neither a ToolMessage nor an AIMessage
PullOther ==
    /\ pc = "pull"
    /\ SourceHasNext
    /\ nEvents' = nEvents + 1
    /\ atYield' = FALSE
    /\ UNCHANGED <<pc, frames, origin, tool_calls, current_message_tool_calls,
                   accumulated_text, token_count, todo, nParts, srcLen,
                   srcFailAt, raised>>
    /\ read' = NoRead
    /\ UNCHANGED <<announced, newMessage>>
    /\ UNCHANGED <<msgVars, resVars, attVars, convVars>>

\* TextDelta carrying the text accumulated so far
TextDeltaAccumulated(content, accumulated) == FrameText(accumulated \o content)

\* lines 36-37: the frame the text of an increment yields
TextDelta(content, accumulated) == FrameText(content)

\* lines 32-39: an AIMessage or AIMessageChunk, its text content
PullAI ==
    /\ pc = "pull"
    /\ SourceHasNext
    /\ \E content \in Texts :
          /\ read' = ReadContent(content)
          /\ IF content # <<>>
             THEN /\ frames' =
                        Append(frames, TextDelta(content, accumulated_text))
                  /\ origin' = Append(origin, nEvents + 1)
                  /\ accumulated_text' = accumulated_text \o content
                  /\ token_count' = token_count + WordCount(content)
                  /\ atYield' = TRUE
             ELSE /\ atYield' = FALSE
                  /\ UNCHANGED <<frames, origin, accumulated_text, token_count>>
    /\ \E begins \in BOOLEAN : newMessage' = (newMessage \/ begins)
    /\ nEvents' = nEvents + 1
    /\ pc' = "tool_calls"
    /\ UNCHANGED <<tool_calls, current_message_tool_calls, todo, nParts, srcLen,
                   srcFailAt, raised, announced>>
    /\ UNCHANGED <<msgVars, resVars, attVars, convVars>>

\* lines 42-49: msg.tool_calls is read; a real tool call resets the list
ReadToolCalls ==
    /\ pc = "tool_calls"
    /\ \E calls \in ToolCallLists :
          /\ Len(calls) <= MaxParts - nParts
          /\ nParts' = nParts + Len(calls)
          /\ todo' = calls
          /\ current_message_tool_calls' =
                IF calls # <<>> /\ HasRealToolCalls(calls)
                THEN <<>>
                ELSE current_message_tool_calls
          /\ pc' = IF calls # <<>> THEN "for_tool_call" ELSE "tool_call_chunks"
          /\ announced' =
                IF HasRealToolCalls(calls) /\ newMessage THEN <<>>
                ELSE announced
          /\ newMessage' = (newMessage /\ ~HasRealToolCalls(calls))
    /\ atYield' = FALSE
    /\ UNCHANGED <<frames, origin, tool_calls, accumulated_text, token_count, nEvents,
                   srcLen, srcFailAt, raised>>
    /\ read' = NoRead
    /\ UNCHANGED <<msgVars, resVars, attVars, convVars>>

\* ToolCallStartFrames without the membership test
ToolCallStartFramesAlways(id, name, known) == <<FrameToolCallStart(id, name)>>

\* ToolCallStartFrames with the membership test inverted
ToolCallStartFramesIfKnown(id, name, known) ==
    IF id \in known THEN <<FrameToolCallStart(id, name)>> ELSE <<>>

\* lines 61-65: the frames a real tool call yields
ToolCallStartFrames(id, name, known) ==
    IF id \notin known THEN <<FrameToolCallStart(id, name)>> ELSE <<>>

\* lines 51-67: one iteration over msg.tool_calls
ForToolCall ==
    /\ pc = "for_tool_call"
    /\ todo # <<>>
    /\ LET tool_call_id == Head(todo).id
           tool_name == Head(todo).name
           out == ToolCallStartFrames(tool_call_id, tool_name, DOMAIN tool_calls)
       IN  IF tool_name # ""
           THEN /\ current_message_tool_calls' =
                      Append(current_message_tool_calls, tool_call_id)
                /\ tool_calls' =
                      IF tool_call_id \notin DOMAIN tool_calls
                      THEN tool_calls @@
                           (tool_call_id :> [name |-> tool_name, args |-> <<>>])
                      ELSE tool_calls
                /\ frames' = frames \o out
                /\ origin' = origin \o [k \in 1..Len(out) |-> nEvents]
                /\ atYield' = (out # <<>>)
                /\ announced' = Append(announced, tool_call_id)
           ELSE /\ atYield' = FALSE
                /\ UNCHANGED <<current_message_tool_calls, tool_calls, frames,
                               origin, announced>>
    /\ todo' = Tail(todo)
    /\ pc' = IF Tail(todo) = <<>> THEN "tool_call_chunks" ELSE "for_tool_call"
    /\ UNCHANGED <<accumulated_text, token_count, nEvents, nParts, srcLen,
                   srcFailAt, raised, newMessage>>
    /\ read' = NoRead
    /\ UNCHANGED <<msgVars, resVars, attVars, convVars>>

\* lines 89-95: whether the chunk is accumulated and yields a frame
ChunkAccepted(tool_call_id, args_chunk, known) ==
    tool_call_id # None /\ tool_call_id \in known /\ args_chunk # <<>>

\* lines 75-95: one iteration over msg.tool_call_chunks
ForChunk ==
    /\ pc = "tool_call_chunks"
    /\ nParts < MaxParts
    /\ \E chunk \in ChunkValues :
          LET found == LookupToolCallId(chunk.index, current_message_tool_calls)
          IN  IF found.err # "none"
              THEN OnException(found.err) /\ read' = ReadChunk(chunk)
              ELSE /\ read' = ReadChunk(chunk)
                   /\ IF ChunkAccepted(found.id, chunk.args, DOMAIN tool_calls)
                      THEN /\ tool_calls' =
                                 [tool_calls EXCEPT
                                    ![found.id].args = @ \o chunk.args]
                           /\ frames' =
                                 Append(frames, FrameArgsDelta(found.id, chunk.args))
                           /\ origin' = Append(origin, nEvents)
                           /\ atYield' = TRUE
                      ELSE /\ atYield' = FALSE
                           /\ UNCHANGED <<tool_calls, frames, origin>>
                   /\ nParts' = nParts + 1
                   /\ UNCHANGED <<pc, current_message_tool_calls,
                                  accumulated_text, token_count, todo, nEvents,
                                  srcLen, srcFailAt, raised, announced,
                                  newMessage>>
                   /\ UNCHANGED <<msgVars, resVars, attVars, convVars>>

\* ChunksDone flushing the text accumulated so far as one more text frame
ChunksDoneFlushText ==
    /\ pc = "tool_call_chunks"
    /\ pc' = "pull"
    /\ atYield' = (accumulated_text # <<>>)
    /\ frames' =
          IF accumulated_text # <<>>
          THEN Append(frames, FrameText(accumulated_text))
          ELSE frames
    /\ origin' =
          IF accumulated_text # <<>> THEN Append(origin, nEvents) ELSE origin
    /\ UNCHANGED <<tool_calls, current_message_tool_calls,
                   accumulated_text, token_count, todo, nEvents, nParts,
                   srcLen, srcFailAt, raised>>
    /\ read' = NoRead
    /\ UNCHANGED <<announced, newMessage>>
    /\ UNCHANGED <<msgVars, resVars, attVars, convVars>>

\* line 75: msg.tool_call_chunks is exhausted, back to the head of the loop
ChunksDone ==
    /\ pc = "tool_call_chunks"
    /\ pc' = "pull"
    /\ atYield' = FALSE
    /\ UNCHANGED <<frames, origin, tool_calls, current_message_tool_calls,
                   accumulated_text, token_count, todo, nEvents, nParts,
                   srcLen, srcFailAt, raised>>
    /\ read' = NoRead
    /\ UNCHANGED <<announced, newMessage>>
    /\ UNCHANGED <<msgVars, resVars, attVars, convVars>>

\* lines 98-99: the source is exhausted
PullEnd ==
    /\ pc = "pull"
    /\ SourceExhausted
    /\ frames' = Append(frames, FrameFinish(token_count))
    /\ origin' = Append(origin, nEvents)
    /\ pc' = "end"
    /\ atYield' = TRUE
    /\ UNCHANGED <<tool_calls, current_message_tool_calls, accumulated_text,
                   token_count, todo, nEvents, nParts, srcLen, srcFailAt, raised>>
    /\ read' = NoRead
    /\ UNCHANGED <<announced, newMessage>>
    /\ UNCHANGED <<msgVars, resVars, attVars, convVars>>

\* the resumption after the last yield: the generator returns
Return ==
    /\ pc = "end"
    /\ pc' = "done"
    /\ atYield' = FALSE
    /\ UNCHANGED <<frames, origin, tool_calls, current_message_tool_calls,
                   accumulated_text, token_count, todo, nEvents, nParts,
                   srcLen, srcFailAt, raised>>
    /\ read' = NoRead
    /\ UNCHANGED <<announced, newMessage>>
    /\ UNCHANGED <<msgVars, resVars, attVars, convVars>>

\* Close with the finish frame sent from a finally clause
CloseThenFinish ==
    /\ atYield
    /\ pc \notin {"done", "closed"}
    /\ pc' = "closed"
    /\ atYield' = FALSE
    /\ frames' = Append(frames, FrameFinish(token_count))
    /\ origin' = Append(origin, nEvents)
    /\ UNCHANGED <<tool_calls, current_message_tool_calls,
                   accumulated_text, token_count, todo, nEvents, nParts,
                   srcLen, srcFailAt, raised>>
    /\ read' = NoRead
    /\ UNCHANGED <<announced, newMessage>>
    /\ UNCHANGED <<msgVars, resVars, attVars, convVars>>

\* the consumer closes the generator while it is suspended at a yield:
\* GeneratorExit is no Exception, so the except clause does not catch it
Close ==
    /\ atYield
    /\ pc \notin {"done", "closed"}
    /\ pc' = "closed"
    /\ atYield' = FALSE
    /\ UNCHANGED <<frames, origin, tool_calls, current_message_tool_calls,
                   accumulated_text, token_count, todo, nEvents, nParts,
                   srcLen, srcFailAt, raised>>
    /\ read' = NoRead
    /\ UNCHANGED <<announced, newMessage>>
    /\ UNCHANGED <<msgVars, resVars, attVars, convVars>>

Resume ==
    \/ Start
    \/ PullRaise
    \/ PullTool
    \/ PullOther
    \/ PullAI
    \/ ReadToolCalls
    \/ ForToolCall
    \/ ForChunk
    \/ ChunksDone
    \/ PullEnd
    \/ Return

Next == Resume \/ Close

Spec == Init /\ [][Next]_vars

\* ----------------------------------------------------- encoder: the claims
\* the positions of the frames whose tag is in tags
TagsAt(tags) == {i \in 1..Len(frames) : frames[i].tag \in tags}

\* C1: once the generator has been resumed there is exactly one message-start
\* (f) frame and it is the first frame; at most one of message-finish (d) and
\* error (3) is ever emitted, and it is the last frame.
C1_Framing ==
    /\ pc = "created" => frames = <<>>
    /\ pc # "created" =>
          /\ frames # <<>>
          /\ frames[1].tag = "f"
          /\ TagsAt({"f"}) = {1}
    /\ Cardinality(TagsAt({"d", "3"})) <= 1
    /\ \A i \in TagsAt({"d", "3"}) : i = Len(frames)

\* a fully consumed run over MaxEvents events that ended with an error frame
\* after other frames
C1_Witness ==
    /\ pc = "done"
    /\ nEvents = MaxEvents
    /\ Len(frames) > 3
    /\ frames[Len(frames)].tag = "3"

\* a fully consumed run whose source raised on the first pull
C1_WitnessFirstPull ==
    /\ pc = "done"
    /\ srcFailAt = 1
    /\ Len(frames) = 2

\* C2: the step in which the source or the processing of an event fails
\* appends exactly one error (3) frame to the frames emitted so far, no frame
\* is emitted after it, and a failed run holds no message-finish (d) frame.
C2_FailureStep ==
    /\ (raised = "none" /\ raised' # "none") =>
          frames' = Append(frames, FrameError(raised'))
    /\ raised # "none" => (frames' = frames /\ raised' = raised)
    /\ raised' # "none" =>
          /\ \A i \in 1..Len(frames') : frames'[i].tag # "d"
          /\ Cardinality({i \in 1..Len(frames') : frames'[i].tag = "3"}) = 1

C2_FailureYieldsOneError == [][C2_FailureStep]_vars

\* the processing of a chunk failed after other frames had been emitted
C2_Witness ==
    /\ raised = "TypeError"
    /\ pc = "done"
    /\ Len(frames) > 3

\* C3: a fully consumed run whose source never failed ends with exactly one
\* message-finish (d) frame with finishReason "stop" as its last frame, and
\* has consumed every event of the source.
C3_FinishAfterCleanSource ==
    (pc = "done" /\ srcFailAt = 0) =>
        /\ nEvents = srcLen
        /\ TagsAt({"d"}) = {Len(frames)}
        /\ frames[Len(frames)].id = "stop"

\* C4: every tool-call-args-delta (c) frame carries a toolCallId that an
\* earlier tool-call-start (b) frame of the run carried.
C4_ArgsDeltaAfterStart ==
    \A i \in TagsAt({"c"}) :
        \E j \in 1..(i - 1) :
            frames[j].tag = "b" /\ frames[j].id = frames[i].id

\* a c frame for the second of two announced tool calls
C4_Witness ==
    /\ Cardinality(TagsAt({"b"})) = 2
    /\ \E i \in TagsAt({"c"}) : frames[i].id = "t2"

\* ================================================= langgraph_content.py
\* A message: its class, the ids of its tool_calls (an AIMessage), the
\* tool_call_id it answers (a ToolMessage) and the identity of the object.
HumanMessage(n) ==
    [type |-> "human", tool_calls |-> <<>>, tool_call_id |-> None, mid |-> n]
SystemMessage(n) ==
    [type |-> "system", tool_calls |-> <<>>, tool_call_id |-> None, mid |-> n]
AIMessage(calls, n) ==
    [type |-> "ai", tool_calls |-> calls, tool_call_id |-> None, mid |-> n]
ToolMessage(id, n) ==
    [type |-> "tool", tool_calls |-> <<>>, tool_call_id |-> id, mid |-> n]
OtherMessage(n) ==
    [type |-> "other", tool_calls |-> <<>>, tool_call_id |-> None, mid |-> n]

\* the messages a list may hold at position n
MessagesAt(n) ==
    {HumanMessage(n), SystemMessage(n), OtherMessage(n)}
    \cup {AIMessage(calls, n) : calls \in {<<>>, <<"t1">>, <<"t1", "t2">>}}
    \cup {ToolMessage(id, n) : id \in Ids}

RECURSIVE MessageLists(_)
MessageLists(n) ==
    IF n = 0 THEN {<<>>}
    ELSE LET shorter == MessageLists(n - 1)
         IN  shorter \cup {Append(s, m) : s \in {t \in shorter : Len(t) = n - 1},
                                          m \in MessagesAt(n)}

\* isinstance(m, AIMessage) and hasattr(m, 'tool_calls') and m.tool_calls
HasToolCalls(m) == m.type = "ai" /\ m.tool_calls # <<>>

\* {tc['id'] for tc in m.tool_calls}
ToolCallIds(m) == {m.tool_calls[k] : k \in 1..Len(m.tool_calls)}

\* lines 50, 55: the first position from j on that holds no ToolMessage
RECURSIVE RunEnd(_, _)
RunEnd(msgs, j) ==
    IF j <= Len(msgs) /\ msgs[j].type = "tool" THEN RunEnd(msgs, j + 1) ELSE j

\* lines 52-53: the ids of tool_call_ids that msgs[from..to] answer
FoundResponses(msgs, from, to, tool_call_ids) ==
    {msgs[k].tool_call_id : k \in {n \in from..to : msgs[n].type = "tool"}}
        \cap tool_call_ids

\* CollectToolMessages keeping every message of the run
CollectWholeRun(run, tool_call_ids) == run

\* lines 52-54: the messages of the run that answer one of tool_call_ids
CollectToolMessages(run, tool_call_ids) ==
    SelectSeq(run, LAMBDA m : m.tool_call_id \in tool_call_ids)

\* AllAnswered accepting every turn
AlwaysAnswered(found, tool_call_ids) == TRUE

\* AllAnswered accepting a turn as soon as one tool call is answered
SomeAnswered(found, tool_call_ids) == found # {}

\* line 58: found_tool_responses == tool_call_ids
AllAnswered(found, tool_call_ids) == found = tool_call_ids

\* KeepTurn with the tool messages put before the message they answer
KeepTurnToolsFirst(sanitized, current_message, tool_messages) ==
    sanitized \o tool_messages \o <<current_message>>

\* lines 59-60: append the AIMessage, extend by its tool messages
KeepTurn(sanitized, current_message, tool_messages) ==
    sanitized \o <<current_message>> \o tool_messages

\* SkipTurn dropping the AIMessage only, its partial answers kept
SkipTurnKeepPartial(sanitized, current_message, tool_messages) ==
    sanitized \o tool_messages

\* lines 61-64: an incomplete turn adds nothing
SkipTurn(sanitized, current_message, tool_messages) == sanitized

\* lines 37-81: the while loop from cursor i on
RECURSIVE SanitizeFrom(_, _, _)
SanitizeFrom(msgs, i, sanitized) ==
    IF i > Len(msgs) THEN sanitized
    ELSE LET current_message == msgs[i] IN
         IF HasToolCalls(current_message)
         THEN LET tool_call_ids == ToolCallIds(current_message)
                  j == RunEnd(msgs, i + 1)
                  found == FoundResponses(msgs, i + 1, j - 1, tool_call_ids)
                  tool_messages ==
                      CollectToolMessages(SubSeq(msgs, i + 1, j - 1), tool_call_ids)
              IN  IF AllAnswered(found, tool_call_ids)
                  THEN SanitizeFrom(msgs, j,
                           KeepTurn(sanitized, current_message, tool_messages))
                  ELSE SanitizeFrom(msgs, j,
                           SkipTurn(sanitized, current_message, tool_messages))
         ELSE IF current_message.type \in {"human", "system", "ai"}
              THEN SanitizeFrom(msgs, i + 1, Append(sanitized, current_message))
              ELSE SanitizeFrom(msgs, i + 1, sanitized)

\* lines 15-83
sanitize_and_validate_messages(msgs) ==
    IF msgs = <<>> THEN msgs ELSE SanitizeFrom(msgs, 1, <<>>)

\* lines 102-115: the AIMessage at position i has all its tool calls
\* answered by the ToolMessages that follow it
ValidAt(msgs, i) ==
    LET tool_call_ids == ToolCallIds(msgs[i])
        j == RunEnd(msgs, i + 1)
        found_responses == FoundResponses(msgs, i + 1, j - 1, tool_call_ids)
    IN  found_responses = tool_call_ids

\* lines 86-117
validate_message_sequence(msgs) ==
    \A i \in 1..Len(msgs) : HasToolCalls(msgs[i]) => ValidAt(msgs, i)

\* PrefixThrough cutting before the boundary message
PrefixBefore(msgs, i) == SubSeq(msgs, 1, i - 1)

\* messages[:i+1] of lines 143, 147, 167 (i counted from 1 here)
PrefixThrough(msgs, i) == SubSeq(msgs, 1, i)

RECURSIVE InitiatorAnswered(_, _, _)

\* AfterIncomplete without the break: the search goes on to earlier messages
AfterIncompleteContinue(msgs, i, j) == InitiatorAnswered(msgs, i, j - 1)

\* line 168: the loop over j ends at the first AIMessage with tool calls
AfterIncomplete(msgs, i, j) == FALSE

\* lines 152-168: searching back from j for the AIMessage with tool calls,
\* whether the messages after it up to i answer all its tool calls
InitiatorAnswered(msgs, i, j) ==
    IF j < 1 THEN FALSE
    ELSE IF HasToolCalls(msgs[j])
         THEN LET tool_call_ids == ToolCallIds(msgs[j])
                  found == FoundResponses(msgs, j + 1, i, tool_call_ids)
              IN  IF found = tool_call_ids THEN TRUE
                  ELSE AfterIncomplete(msgs, i, j)
         ELSE InitiatorAnswered(msgs, i, j - 1)

\* lines 141-167: whether the loop returns at message i
ReturnsAt(msgs, i) ==
    \/ msgs[i].type = "human"
    \/ msgs[i].type = "ai" /\ msgs[i].tool_calls = <<>>
    \/ msgs[i].type = "tool" /\ InitiatorAnswered(msgs, i, i - 1)

\* a fallback that returns the whole list
MinimalDefaultWhole(msgs) == msgs

\* line 171: messages[:1]
MinimalDefault(msgs) == SubSeq(msgs, 1, 1)

\* lines 138-171: the backward loop from i, then the fallback
RECURSIVE ScanBack(_, _)
ScanBack(msgs, i) ==
    IF i < 1 THEN MinimalDefault(msgs)
    ELSE IF ReturnsAt(msgs, i) THEN PrefixThrough(msgs, i)
         ELSE ScanBack(msgs, i - 1)

\* lines 120-171
get_last_complete_conversation_turn(msgs) ==
    IF msgs = <<>> THEN msgs ELSE ScanBack(msgs, Len(msgs))

\* -------------------------------------------------- the message functions
EncIdle ==
    /\ pc = "created"
    /\ atYield = FALSE
    /\ frames = <<>>
    /\ origin = <<>>
    /\ tool_calls = <<>>
    /\ current_message_tool_calls = <<>>
    /\ accumulated_text = <<>>
    /\ token_count = 0
    /\ todo = <<>>
    /\ nEvents = 0
    /\ nParts = 0
    /\ srcLen = 0
    /\ srcFailAt = 0
    /\ raised = "none"
    /\ read = NoRead
    /\ announced = <<>>
    /\ newMessage = TRUE

MsgInit ==
    /\ EncIdle
    /\ ResIdle
    /\ ConvIdle
    /\ messages \in MessageLists(MaxMsgs)
    /\ result = <<>>
    /\ prev = <<>>
    /\ op = "none"
    /\ valid = FALSE

\* sanitize_and_validate_messages(messages)
Sanitize ==
    /\ op = "none"
    /\ result' = sanitize_and_validate_messages(messages)
    /\ op' = "sanitize"
    /\ UNCHANGED <<messages, prev, valid>>
    /\ UNCHANGED <<encVars, resVars, attVars, convVars>>

\* get_last_complete_conversation_turn(messages)
LastTurn ==
    /\ op = "none"
    /\ result' = get_last_complete_conversation_turn(messages)
    /\ op' = "turn"
    /\ UNCHANGED <<messages, prev, valid>>
    /\ UNCHANGED <<encVars, resVars, attVars, convVars>>

\* get_last_complete_conversation_turn applied to what it returned
LastTurnAgain ==
    /\ op = "turn"
    /\ result' = get_last_complete_conversation_turn(result)
    /\ prev' = result
    /\ op' = "turn2"
    /\ UNCHANGED <<messages, valid>>
    /\ UNCHANGED <<encVars, resVars, attVars, convVars>>

\* sanitize_and_validate_messages applied to what it returned
SanitizeAgain ==
    /\ op = "sanitize"
    /\ result' = sanitize_and_validate_messages(result)
    /\ prev' = result
    /\ op' = "sanitize2"
    /\ UNCHANGED <<messages, valid>>
    /\ UNCHANGED <<encVars, resVars, attVars, convVars>>

\* validate_message_sequence applied to what the sanitizer returned
Validate ==
    /\ op = "sanitize"
    /\ valid' = validate_message_sequence(result)
    /\ op' = "validate"
    /\ UNCHANGED <<messages, result, prev>>
    /\ UNCHANGED <<encVars, resVars, attVars, convVars>>

MsgNext == Sanitize \/ LastTurn \/ LastTurnAgain \/ SanitizeAgain \/ Validate

SpecMessages == MsgInit /\ [][MsgNext]_vars

\* --------------------------------------------- message functions: the claims
\* the positions of the maximal run of ToolMessages directly after position a
RunAfter(msgs, a) == (a + 1)..(RunEnd(msgs, a + 1) - 1)

\* the ids answered by the ToolMessages at the positions ks
AnsweredAt(msgs, ks) ==
    {msgs[k].tool_call_id : k \in {n \in ks : msgs[n].type = "tool"}}

\* the identities of the messages of a list
Mids(msgs) == {msgs[k].mid : k \in 1..Len(msgs)}

\* C5: in the sanitizer's output every AIMessage with tool calls is directly
\* followed by ToolMessages that answer all its ids, and every ToolMessage
\* stands in the run directly after the AIMessage that issued its id.
C5_SanitizerCompleteness ==
    op = "sanitize" =>
        /\ \A a \in 1..Len(result) :
              HasToolCalls(result[a]) =>
                  ToolCallIds(result[a]) \subseteq
                      AnsweredAt(result, RunAfter(result, a))
        /\ \A k \in 1..Len(result) :
              result[k].type = "tool" =>
                  \E a \in 1..(k - 1) :
                      /\ HasToolCalls(result[a])
                      /\ \A n \in (a + 1)..k : result[n].type = "tool"
                      /\ result[k].tool_call_id \in ToolCallIds(result[a])

\* a turn is kept with the ToolMessage that answers it, and a ToolMessage of
\* its run that answers another id is removed
C5_Witness ==
    /\ op = "sanitize"
    /\ Len(messages) = 3
    /\ Len(result) = 2
    /\ HasToolCalls(result[1])
    /\ result[2].type = "tool"
    /\ \A k \in 2..3 : messages[k].type = "tool"

\* C6: the sanitizer's output is a subsequence of its input: each message
\* of the output is the input's message of that identity, unaltered, and the
\* output keeps the input's order.
C6_SanitizerSubsequence ==
    op = "sanitize" =>
        /\ \A k \in 1..Len(result) :
              /\ result[k].mid \in 1..Len(messages)
              /\ result[k] = messages[result[k].mid]
        /\ \A k \in 1..(Len(result) - 1) : result[k].mid < result[k + 1].mid

\* a kept turn with its ToolMessage, after a message that was removed
C6_Witness ==
    /\ op = "sanitize"
    /\ Len(result) = 3
    /\ result[1].mid = 1
    /\ result[2].mid = 3
    /\ HasToolCalls(result[2])
    /\ result[3].type = "tool"

\* C7: in the sanitizer's output no id of an AIMessage is answered twice by
\* the run after it, and an AIMessage of the input whose run answers an id
\* twice is removed with its whole run.
C7_NoDuplicateAnswers ==
    op = "sanitize" =>
        /\ \A a \in 1..Len(result) :
              HasToolCalls(result[a]) =>
                  \A k1, k2 \in RunAfter(result, a) :
                      k1 # k2 => result[k1].tool_call_id # result[k2].tool_call_id
        /\ \A a \in 1..Len(messages) :
              (/\ HasToolCalls(messages[a])
               /\ \E k1, k2 \in RunAfter(messages, a) :
                     /\ k1 # k2
                     /\ messages[k1].tool_call_id = messages[k2].tool_call_id)
              => \A k \in {a} \cup RunAfter(messages, a) : k \notin Mids(result)

\* position a holds an AIMessage one of whose ids the run after it leaves
\* unanswered
Unanswered(msgs, a) ==
    /\ HasToolCalls(msgs[a])
    /\ ~(ToolCallIds(msgs[a]) \subseteq AnsweredAt(msgs, RunAfter(msgs, a)))

\* a list without its positions from..to
Without(msgs, from, to) ==
    SubSeq(msgs, 1, from - 1) \o SubSeq(msgs, to + 1, Len(msgs))

\* C8: an AIMessage with an unanswered id is removed together with every
\* ToolMessage of the run after it, and the output is the one the sanitizer
\* gives for the list without that turn.
C8_NoPartialTurn ==
    op = "sanitize" =>
        \A a \in 1..Len(messages) :
            Unanswered(messages, a) =>
                LET e == RunEnd(messages, a + 1) - 1
                IN  /\ \A k \in a..e : k \notin Mids(result)
                    /\ result =
                         sanitize_and_validate_messages(Without(messages, a, e))

\* a turn with one of its two tool calls answered is removed, other messages
\* are kept
C8_Witness ==
    /\ op = "sanitize"
    /\ \E a \in 1..Len(messages) :
          /\ Unanswered(messages, a)
          /\ AnsweredAt(messages, RunAfter(messages, a))
                \cap ToolCallIds(messages[a]) # {}
    /\ result # <<>>

\* C9: get_last_complete_conversation_turn applied to its own result
\* returns that result.
C9_TurnIdempotent == op = "turn2" => result = prev

\* the second application, after the first took the fallback on a list of
\* several messages
C9_Witness ==
    /\ op = "turn2"
    /\ Len(messages) > 1
    /\ Len(prev) = 1
    /\ HasToolCalls(prev[1])

\* the second application, after the first cut the list at a ToolMessage
C9_WitnessBoundary ==
    /\ op = "turn2"
    /\ Len(prev) = 2
    /\ Len(messages) = 4
    /\ prev[2].type = "tool"

\* position i is a boundary: a HumanMessage, an AIMessage without tool
\* calls, or a ToolMessage such that the messages after the nearest earlier
\* AIMessage with tool calls, up to i, answer all its ids
IsBoundary(msgs, i) ==
    \/ msgs[i].type = "human"
    \/ msgs[i].type = "ai" /\ msgs[i].tool_calls = <<>>
    \/ /\ msgs[i].type = "tool"
       /\ \E j \in 1..(i - 1) :
             /\ HasToolCalls(msgs[j])
             /\ \A n \in (j + 1)..(i - 1) : ~HasToolCalls(msgs[n])
             /\ ToolCallIds(msgs[j]) \subseteq AnsweredAt(msgs, (j + 1)..i)

Boundaries(msgs) == {i \in 1..Len(msgs) : IsBoundary(msgs, i)}

\* C10: for a list with a boundary, get_last_complete_conversation_turn
\* returns the longest prefix that ends at a boundary, and the result does
\* not end with an AIMessage that has tool calls.
C10_LongestBoundaryPrefix ==
    (op = "turn" /\ Boundaries(messages) # {}) =>
        /\ result = SubSeq(messages, 1, Len(result))
        /\ Len(result) \in Boundaries(messages)
        /\ \A i \in Boundaries(messages) : i <= Len(result)
        /\ ~HasToolCalls(result[Len(result)])

\* the scan passed an unanswered tool-call run and cut at an earlier
\* ToolMessage
C10_Witness ==
    /\ op = "turn"
    /\ Len(messages) = 4
    /\ messages[4].type = "tool"
    /\ HasToolCalls(messages[3])
    /\ Len(result) = 2
    /\ result[2].type = "tool"

\* C11: for a list without a boundary get_last_complete_conversation_turn
\* returns the first message alone, for the empty list it returns the empty
\* list, and its result is always a prefix of its input.
C11_FallbackFirstMessage ==
    op = "turn" =>
        /\ Len(result) <= Len(messages)
        /\ result = SubSeq(messages, 1, Len(result))
        /\ messages = <<>> => result = <<>>
        /\ (messages # <<>> /\ Boundaries(messages) = {}) =>
               result = <<messages[1]>>

\* the fallback on a list of several messages none of which is a boundary:
\* a ToolMessage whose AIMessage is left with an unanswered id
C11_Witness ==
    /\ op = "turn"
    /\ Len(messages) = 3
    /\ Boundaries(messages) = {}
    /\ messages[3].type = "tool"
    /\ Len(result) = 1

\* the empty input
C11_WitnessEmpty == op = "turn" /\ messages = <<>> /\ result = <<>>

\* C21: an AIMessage with tool calls is kept if and only if the ids answered
\* by all the ToolMessages of the maximal run directly after it are exactly
\* its ids, and when it is kept every ToolMessage of that run is kept.
C21_KeepIffRunAnswersExactly ==
    op = "sanitize" =>
        \A a \in 1..Len(messages) :
            HasToolCalls(messages[a]) =>
                /\ a \in Mids(result) <=>
                      AnsweredAt(messages, RunAfter(messages, a)) =
                          ToolCallIds(messages[a])
                /\ a \in Mids(result) =>
                      \A k \in RunAfter(messages, a) : k \in Mids(result)

\* ======================================================= lib/langgraph.py
\* Messages and content items read by change_file_to_url, counted together
\* over all its calls.
MaxRead == 4

\* get_file_temporary_link(attachment.blob_name, expiry=3600)
Expiry == 3600

\* A url: its scheme, the characters after the scheme, and for a signed
\* locator the number of its issuance (0: no signed locator).
Url(scheme, rest) == [scheme |-> scheme, rest |-> rest, sig |-> 0]
NoUrl == Url("", <<>>)

\* the n-th locator the blob storage issues, for blob_name
SignedUrl(blob_name, n) == [scheme |-> "https://", rest |-> blob_name, sig |-> n]

\* A row of the attachments table.
Attachment(id, userid, filename, blob_name, type, created_at, metadata) ==
    [id |-> id, userid |-> userid, filename |-> filename,
     blob_name |-> blob_name, type |-> type, created_at |-> created_at,
     metadata |-> metadata]

\* f"attachments/{userid}/{attachment_id}_{file.filename}"
BlobName(userid, attachment_id, filename) ==
    <<"attachments/", userid, "/">> \o attachment_id \o <<"_", filename>>

\* the table change_file_to_url runs against: attachment a exists
ResolverStore ==
    {Attachment(<<"a">>, "u1", "a.png", BlobName("u1", <<"a">>, "a.png"),
                "image/png", 1, "none")}

\* db_manager.get_attachment(attachment_id): the rows with that id
get_attachment(attachment_id) == {row \in store : row.id = attachment_id}

\* A content item: a dict with its 'type', its 'image_url' (a dict with
\* 'url' and perhaps 'detail', or a value that is no dict) and perhaps a
\* further top-level key; or an item that is no dict.
NoImage == [isdict |-> FALSE, url |-> NoUrl, detail |-> "absent"]
TextPart == [type |-> "text", image_url |-> NoImage, extra |-> "absent"]
StrItem == [type |-> "notdict", image_url |-> NoImage, extra |-> "absent"]
ImagePart(url, detail, extra) ==
    [type |-> "image_url",
     image_url |-> [isdict |-> TRUE, url |-> url, detail |-> detail],
     extra |-> extra]
\* {'type': 'image_url', 'image_url': 'file://a'}
MalformedImagePart ==
    [type |-> "image_url", image_url |-> NoImage, extra |-> "absent"]

Items ==
    {TextPart, StrItem, MalformedImagePart,
     ImagePart(Url("file://", <<"a">>), "absent", "absent"),
     ImagePart(Url("file://", <<"a">>), "high", "x"),
     ImagePart(Url("file://", <<"a", " ", "/">>), "absent", "absent"),
     ImagePart(Url("file://", <<"a", "/", " ">>), "absent", "absent"),
     ImagePart(Url("file://", <<"/">>), "absent", "absent"),
     ImagePart(Url("attachment://", <<"a">>), "absent", "absent")}

\* A message: its class, whether its content is a str or a list, the list,
\* its id, and the tool_calls of an AIMessage.
RefMessage(type, kind, parts, id, tcs) ==
    [type |-> type, kind |-> kind, parts |-> parts, id |-> id,
     tool_calls |-> tcs]

\* the messages whose content change_file_to_url iterates
ListMessages ==
    {RefMessage("human", "list", <<>>, "m1", <<>>)}
    \cup {RefMessage("ai", "list", <<>>, "m2", <<"t1">>)}

\* the messages it hands on as they are
PlainMessages ==
    {RefMessage("human", "str", <<>>, "m1", <<>>),
     RefMessage("ai", "str", <<>>, "m1", <<"t1">>),
     RefMessage("system", "list",
                <<ImagePart(Url("file://", <<"a">>), "absent", "absent")>>,
                "m1", <<>>),
     RefMessage("tool", "str", <<>>, "m1", <<>>)}

\* ------------------------------------------------------------ str methods
RECURSIVE RStrip(_, _)
\* s.rstrip(c)
RStrip(s, c) ==
    IF s # <<>> /\ s[Len(s)] = c THEN RStrip(SubSeq(s, 1, Len(s) - 1), c)
    ELSE s

RECURSIVE LStrip(_, _)
LStrip(s, c) == IF s # <<>> /\ s[1] = c THEN LStrip(Tail(s), c) ELSE s

\* s.strip()
Strip(s) == LStrip(RStrip(s, " "), " ")

\* StartsWithFile for the scheme attachment://
StartsWithAttachment(url) == url.scheme = "attachment://"

\* line 168: url.startswith('file://')
StartsWithFile(url) == url.scheme = "file://"

\* lines 170-172: url.replace('file://', '').rstrip('/').strip()
AttachmentId(url) == Strip(RStrip(url.rest, "/"))

\* ------------------------------------------------- process_image_url_item
\* a call of db_manager.get_attachment
GetCall(attachment_id, raises) ==
    [fn |-> "get_attachment", arg |-> attachment_id, expiry |-> 0,
     raised |-> raises, out |-> NoUrl]

\* a call of get_file_temporary_link and the locator it returned
SignCall(blob_name, expiry, raises, blob_url) ==
    [fn |-> "get_file_temporary_link", arg |-> blob_name,
     expiry |-> expiry, raised |-> raises,
     out |-> IF raises THEN NoUrl ELSE blob_url]

\* the locators issued so far
Issued ==
    {k \in 1..Len(callLog) :
        callLog[k].fn = "get_file_temporary_link" /\ ~callLog[k].raised}

\* the locator the blob storage issues next
NextSignedUrl(blob_name) == SignedUrl(blob_name, Cardinality(Issued) + 1)

\* Unresolved returning the item with its url replaced by the trimmed id
UnresolvedTrimmed(item) ==
    IF item.image_url.isdict
    THEN [item EXCEPT !.image_url.url = Url("", AttachmentId(@))]
    ELSE item

\* lines 177, 198, 201: return item
Unresolved(item) == item

\* the except clause without its return: the exception goes to the caller
OnItemExceptionReraise(item) == [item |-> item, escaped |-> TRUE]

\* lines 203-206: except Exception: return item
OnItemException(item) == [item |-> item, escaped |-> FALSE]

\* Rewritten returning the item as it was
RewrittenNot(item, blob_url) == item

\* lines 187-194: the dict returned for a resolved reference
Rewritten(item, blob_url) ==
    [type |-> "image_url",
     image_url |-> [item.image_url EXCEPT !.url = blob_url],
     extra |-> "absent"]

\* lines 162-201: the body of the try block: the item it returns, the calls
\* it makes, and whether it raises; getRaises and signRaises say whether the
\* collaborators raise when called
TryResolve(item, getRaises, signRaises) ==
    LET image_url_obj == item.image_url
        url == image_url_obj.url
        attachment_id == AttachmentId(url)
        found == get_attachment(attachment_id)
        returns(new_item, made) ==
            [item |-> new_item, made |-> made, exc |-> FALSE]
        raises(made) == [item |-> item, made |-> made, exc |-> TRUE]
    IN  IF ~image_url_obj.isdict THEN raises(<<>>)
        ELSE IF ~StartsWithFile(url) THEN returns(Unresolved(item), <<>>)
        ELSE IF attachment_id = <<>> THEN returns(Unresolved(item), <<>>)
        ELSE IF getRaises THEN raises(<<GetCall(attachment_id, TRUE)>>)
        ELSE IF found = {}
             THEN returns(Unresolved(item), <<GetCall(attachment_id, FALSE)>>)
        ELSE LET attachment == CHOOSE row \in found : TRUE
                 blob_url == NextSignedUrl(attachment.blob_name)
                 made == <<GetCall(attachment_id, FALSE),
                           SignCall(attachment.blob_name, Expiry, signRaises,
                                    blob_url)>>
             IN  IF signRaises THEN raises(made)
                 ELSE returns(Rewritten(item, blob_url), made)

\* the try block with its except clause
Guarded(item, tried) ==
    IF tried.exc
    THEN [item |-> OnItemException(item).item, made |-> tried.made,
          escaped |-> OnItemException(item).escaped]
    ELSE [item |-> tried.item, made |-> tried.made, escaped |-> FALSE]

\* process_image_url_item that keeps the locators it was issued, by
\* attachment id, and hands them out again
process_image_url_item_cached(item, getRaises, signRaises) ==
    LET attachment_id == AttachmentId(item.image_url.url)
        hits == {k \in Issued : callLog[k - 1].arg = attachment_id}
    IN  IF item.image_url.isdict /\ StartsWithFile(item.image_url.url)
           /\ hits # {}
        THEN [item |-> Rewritten(item, callLog[CHOOSE k \in hits : TRUE].out),
              made |-> <<>>, escaped |-> FALSE]
        ELSE Guarded(item, TryResolve(item, getRaises, signRaises))

\* process_image_url_item that stops resolving once a collaborator has
\* raised in this call of change_file_to_url
process_image_url_item_tripped(item, getRaises, signRaises) ==
    IF \E k \in (callBase + 1)..Len(callLog) : callLog[k].raised
    THEN [item |-> item, made |-> <<>>, escaped |-> FALSE]
    ELSE Guarded(item, TryResolve(item, getRaises, signRaises))

\* lines 136-206
process_image_url_item(item, getRaises, signRaises) ==
    Guarded(item, TryResolve(item, getRaises, signRaises))

\* ----------------------------------------------------- change_file_to_url
\* the table holds attachment a; change_file_to_url has not been called
ResInit ==
    /\ EncIdle
    /\ MsgIdle
    /\ ConvIdle
    /\ store = ResolverStore
    /\ blobs = {row.blob_name : row \in ResolverStore}
    /\ created = ResolverStore
    /\ now = 1
    /\ reply = NoReply
    /\ rpc = "idle"
    /\ given = <<>>
    /\ inMsgs = <<>>
    /\ processed_messages = <<>>
    /\ new_content = <<>>
    /\ callLog = <<>>
    /\ callBase = 0
    /\ nRead = 0

\* line 22: change_file_to_url is called
BeginCall ==
    /\ rpc \in {"idle", "returned"}
    /\ rpc' = "messages"
    /\ given' = <<>>
    /\ inMsgs' = <<>>
    /\ processed_messages' = <<>>
    /\ new_content' = <<>>
    /\ callBase' = Len(callLog)
    /\ UNCHANGED <<store, callLog, nRead>>
    /\ UNCHANGED <<encVars, msgVars, attVars, convVars>>

\* lines 24-37, 52-60: a message handed on as it is: a SystemMessage, a
\* message of another class, or one whose content is a str
PassMessage ==
    /\ rpc = "messages"
    /\ nRead < MaxRead
    /\ \E message \in PlainMessages :
          /\ given' = Append(given, message)
          /\ inMsgs' = Append(inMsgs, message)
          /\ processed_messages' = Append(processed_messages, message)
    /\ nRead' = nRead + 1
    /\ UNCHANGED <<store, rpc, new_content, callLog, callBase>>
    /\ UNCHANGED <<encVars, msgVars, attVars, convVars>>

\* lines 26-29, 63-64: a HumanMessage or AIMessage whose content is a list
EnterMessage ==
    /\ rpc = "messages"
    /\ nRead < MaxRead
    /\ \E message \in ListMessages :
          /\ given' = Append(given, message)
          /\ inMsgs' = Append(inMsgs, message)
    /\ new_content' = <<>>
    /\ rpc' = "items"
    /\ nRead' = nRead + 1
    /\ UNCHANGED <<store, processed_messages, callLog, callBase>>
    /\ UNCHANGED <<encVars, msgVars, attVars, convVars>>

\* the calls of a list, marked with the position of the item they were
\* made for
At(made, m, i) ==
    [k \in 1..Len(made) |->
        [fn |-> made[k].fn, arg |-> made[k].arg, expiry |-> made[k].expiry,
         raised |-> made[k].raised, out |-> made[k].out, msg |-> m,
         item |-> i]]

\* the caller's dict after an iteration that wrote the new url into it
CallerItemWritten(item, new_item) == new_item

\* lines 66-76, 187-194: the caller's dict after the iteration: it is read,
\* a resolved reference is returned in a new dict
CallerItem(item, new_item) == item

\* lines 66-76 (115-124): one iteration over the content list
ResolveItem ==
    /\ rpc = "items"
    /\ nRead < MaxRead
    /\ \E item \in Items, getRaises \in BOOLEAN, signRaises \in BOOLEAN :
          LET m == Len(inMsgs)
              i == Len(new_content) + 1
              r == IF item.type = "image_url"
                   THEN process_image_url_item(item, getRaises, signRaises)
                   ELSE [item |-> item, made |-> <<>>, escaped |-> FALSE]
          IN  /\ given' = [given EXCEPT ![m].parts = Append(@, item)]
              /\ inMsgs' =
                    [inMsgs EXCEPT
                       ![m].parts = Append(@, CallerItem(item, r.item))]
              /\ callLog' = callLog \o At(r.made, m, i)
              /\ IF r.escaped
                 THEN /\ rpc' = "raised"
                      /\ UNCHANGED new_content
                 ELSE /\ new_content' = Append(new_content, r.item)
                      /\ UNCHANGED rpc
    /\ nRead' = nRead + 1
    /\ UNCHANGED <<store, processed_messages, callBase>>
    /\ UNCHANGED <<encVars, msgVars, attVars, convVars>>

\* lines 79-83 (127-131): HumanMessage(content=new_content,
\* additional_kwargs=..., id=message.id); every other field gets its
\* default: tool_calls is not handed to the constructor (the messages
\* modelled carry their tool calls in tool_calls, not as raw entries of
\* additional_kwargs)
Rebuilt(message, content) ==
    RefMessage(message.type, "list", content, message.id, <<>>)

\* lines 78-83, 37: the content list is exhausted
RebuildMessage ==
    /\ rpc = "items"
    /\ processed_messages' =
          Append(processed_messages,
                 Rebuilt(inMsgs[Len(inMsgs)], new_content))
    /\ new_content' = <<>>
    /\ rpc' = "messages"
    /\ UNCHANGED <<store, given, inMsgs, callLog, callBase, nRead>>
    /\ UNCHANGED <<encVars, msgVars, attVars, convVars>>

\* line 39: the message list is exhausted
ReturnMessages ==
    /\ rpc = "messages"
    /\ rpc' = "returned"
    /\ UNCHANGED <<store, given, inMsgs, processed_messages, new_content,
                   callLog, callBase, nRead>>
    /\ UNCHANGED <<encVars, msgVars, attVars, convVars>>

ResNext ==
    \/ BeginCall
    \/ PassMessage
    \/ EnterMessage
    \/ ResolveItem
    \/ RebuildMessage
    \/ ReturnMessages

SpecResolver == ResInit /\ [][ResNext]_vars

\* ------------------------------------------- change_file_to_url: the claims
\* the calls of the current call of change_file_to_url
CurrentCalls == (callBase + 1)..Len(callLog)

\* the calls made for item i of message m
CallsAt(m, i) ==
    {k \in CurrentCalls : callLog[k].msg = m /\ callLog[k].item = i}

\* the reference at item i of message m was resolved: the signed locator
\* was issued for it
ResolvedAt(m, i) ==
    \E k \in CallsAt(m, i) :
        callLog[k].fn = "get_file_temporary_link" /\ ~callLog[k].raised

\* the content list built for message m so far
OutParts(m) ==
    IF m <= Len(processed_messages) THEN processed_messages[m].parts
    ELSE new_content

\* the positions of the content items handled so far
Handled ==
    UNION {{<<m, i>> : i \in 1..Len(OutParts(m))} : m \in 1..Len(given)}

\* C12: whatever the collaborators do (not found, get_attachment raises,
\* get_file_temporary_link raises) and however an image part is malformed,
\* no exception leaves change_file_to_url, and every image part whose
\* reference was not resolved is returned equal to the original part.
C12_ResolverNeverRaises ==
    /\ rpc # "raised"
    /\ \A p \in Handled :
          (/\ given[p[1]].parts[p[2]].type = "image_url"
           /\ ~ResolvedAt(p[1], p[2]))
          => OutParts(p[1])[p[2]] = given[p[1]].parts[p[2]]

\* a call that returned after get_file_temporary_link raised for one image
\* part and another image part was malformed
C12_Witness ==
    /\ rpc = "returned"
    /\ \E k \in CurrentCalls :
          callLog[k].fn = "get_file_temporary_link" /\ callLog[k].raised
    /\ \E p \in Handled : given[p[1]].parts[p[2]] = MalformedImagePart

\* the locator issued for item i of message m
LocatorAt(m, i) ==
    callLog[CHOOSE k \in CallsAt(m, i) :
                callLog[k].fn = "get_file_temporary_link"
                /\ ~callLog[k].raised].out

\* C13: a part whose reference was resolved is returned with its url
\* replaced by the signed locator and with every other field, inside
\* image_url and at the top level of the part, as in the original part.
C13_OnlyUrlChanges ==
    \A p \in Handled :
        ResolvedAt(p[1], p[2]) =>
            OutParts(p[1])[p[2]] =
                [given[p[1]].parts[p[2]] EXCEPT
                    !.image_url.url = LocatorAt(p[1], p[2])]

\* item i of message m is an image part whose url has the given scheme,
\* with an id, as trimmed, that the table holds
RefersToRow(m, i, scheme) ==
    LET part == given[m].parts[i]
    IN  /\ part.type = "image_url"
        /\ part.image_url.isdict
        /\ part.image_url.url.scheme = scheme
        /\ AttachmentId(part.image_url.url) # <<>>
        /\ get_attachment(AttachmentId(part.image_url.url)) # {}

\* the url returned for item i of message m is a signed locator issued for
\* the blob of the row the item refers to
SignedForRow(m, i) ==
    LET id == AttachmentId(given[m].parts[i].image_url.url)
        url == OutParts(m)[i].image_url.url
    IN  /\ url.sig > 0
        /\ \E row \in get_attachment(id) : url.rest = row.blob_name

NoCallRaised(m, i) == \A k \in CallsAt(m, i) : ~callLog[k].raised

FailedAt(m, i) ==
    LET part == given[m].parts[i]
    IN  /\ given[m].type \in {"human", "ai"}
        /\ part.type = "image_url"
        /\ ~part.image_url.isdict \/ part.image_url.url.scheme = "file://"
        /\ ~ResolvedAt(m, i)

\* C15: in the list change_file_to_url returns, a reference that failed to
\* resolve leaves every other reference of the batch as it would be without
\* it: each other reference of a HumanMessage or AIMessage that names a row
\* of the table, and for which no collaborator raised, is rewritten to the
\* signed locator issued for it.
C15_FailureIsolation ==
    rpc = "returned" =>
        LET handled == Handled
        IN  \A q \in handled :
                FailedAt(q[1], q[2]) =>
                    \A p \in handled \ {q} :
                        (/\ given[p[1]].type \in {"human", "ai"}
                         /\ RefersToRow(p[1], p[2], "file://")
                         /\ NoCallRaised(p[1], p[2]))
                        => /\ ResolvedAt(p[1], p[2])
                           /\ OutParts(p[1])[p[2]].image_url.url =
                                 LocatorAt(p[1], p[2])

\* get_attachment raised for the first item of a message and the item after
\* it was rewritten
C15_Witness ==
    /\ rpc = "returned"
    /\ \E m \in 1..Len(given) :
          /\ Len(given[m].parts) = 2
          /\ FailedAt(m, 1)
          /\ \E k \in CallsAt(m, 1) : callLog[k].raised
          /\ ResolvedAt(m, 2)
          /\ OutParts(m)[2].image_url.url.sig > 0

\* a malformed image part in the first message and a rewritten reference in
\* the second
C15_WitnessAcross ==
    /\ rpc = "returned"
    /\ Len(given) = 2
    /\ given[1].parts = <<MalformedImagePart>>
    /\ given[1].type = "human"
    /\ Len(given[2].parts) = 1
    /\ ResolvedAt(2, 1)

\* C16: change_file_to_url leaves the caller's messages and content parts as
\* they were given, and the list it returns has, position by position, a
\* message of the same class for each message given, with as many content
\* parts of the same types in the same order; a message whose content is a
\* str and a part that is no image part are returned as they were given.
C16_NewListSameShape ==
    /\ inMsgs = given
    /\ rpc = "returned" =>
          /\ Len(processed_messages) = Len(given)
          /\ \A m \in 1..Len(given) :
                /\ processed_messages[m].type = given[m].type
                /\ given[m].kind = "str" => processed_messages[m] = given[m]
                /\ Len(processed_messages[m].parts) = Len(given[m].parts)
                /\ \A i \in 1..Len(given[m].parts) :
                      /\ processed_messages[m].parts[i].type =
                            given[m].parts[i].type
                      /\ given[m].parts[i].type # "image_url" =>
                            processed_messages[m].parts[i] = given[m].parts[i]

\* a returned list of a str message and a message whose text part follows a
\* rewritten image part
C16_Witness ==
    /\ rpc = "returned"
    /\ Len(given) = 2
    /\ given[1].kind = "str"
    /\ Len(given[2].parts) = 2
    /\ ResolvedAt(2, 1)
    /\ processed_messages[2].parts[1] # given[2].parts[1]
    /\ given[2].parts[2] = TextPart

\* the positions whose part was returned with a signed locator as its url
RewrittenAt ==
    {p \in Handled :
        /\ OutParts(p[1])[p[2]].type = "image_url"
        /\ OutParts(p[1])[p[2]].image_url.url.sig > 0}

\* C17: every signed locator is requested with an expiry of 3600 seconds;
\* every part returned with a signed locator had its own get_attachment call
\* for its id and, right after it, its own get_file_temporary_link call,
\* whose locator it carries; no two parts carry the same locator and no part
\* carries a locator issued in an earlier call of change_file_to_url.
C17_NoLocatorReuse ==
    /\ \A k \in 1..Len(callLog) :
          callLog[k].fn = "get_file_temporary_link" =>
              callLog[k].expiry = Expiry
    /\ LET rewritten == RewrittenAt
       IN  \A p \in rewritten :
              LET url == OutParts(p[1])[p[2]].image_url.url
                  id == AttachmentId(given[p[1]].parts[p[2]].image_url.url)
              IN  /\ \E k \in CallsAt(p[1], p[2]) :
                        /\ callLog[k].fn = "get_attachment"
                        /\ callLog[k].arg = id
                        /\ k + 1 \in CallsAt(p[1], p[2])
                        /\ callLog[k + 1].fn = "get_file_temporary_link"
                        /\ callLog[k + 1].out = url
                  /\ \A k \in 1..callBase : callLog[k].out # url
                  /\ \A q \in rewritten \ {p} :
                        OutParts(q[1])[q[2]].image_url.url # url

\* a call that rewrote a reference to attachment a after an earlier call
\* had been issued a locator for it
C17_Witness ==
    /\ callBase > 0
    /\ \E k \in 1..callBase :
          callLog[k].fn = "get_file_temporary_link" /\ ~callLog[k].raised
    /\ rpc = "returned"
    /\ RewrittenAt # {}

\* two references to attachment a in one message, both rewritten
C17_WitnessSameMessage ==
    /\ rpc = "returned"
    /\ \E m \in 1..Len(given) : {<<m, 1>>, <<m, 2>>} \subseteq RewrittenAt

\* a str without its trailing slashes and whitespace, in whatever order
RECURSIVE TrimTrailing(_)
TrimTrailing(s) ==
    IF s # <<>> /\ s[Len(s)] \in {"/", " "}
    THEN TrimTrailing(SubSeq(s, 1, Len(s) - 1))
    ELSE s

\* C22: every id handed to get_attachment is non-empty and ends neither in
\* '/' nor in whitespace; a file:// reference whose id is empty once its
\* trailing slashes and whitespace are removed causes no call and its part is
\* returned as it was given.
C22_IdTrimmed ==
    /\ \A k \in 1..Len(callLog) :
          callLog[k].fn = "get_attachment" =>
              /\ callLog[k].arg # <<>>
              /\ callLog[k].arg[Len(callLog[k].arg)] \notin {"/", " "}
    /\ \A p \in Handled :
          LET part == given[p[1]].parts[p[2]]
          IN  (/\ part.type = "image_url"
               /\ part.image_url.isdict
               /\ part.image_url.url.scheme = "file://"
               /\ TrimTrailing(part.image_url.url.rest) = <<>>)
              => /\ CallsAt(p[1], p[2]) = {}
                 /\ OutParts(p[1])[p[2]] = part

\* --------------------------------------- generate_stream: abandonment, order
\* C18: the step in which the consumer closes the generator, and every step
\* after it, pulls no event from the source and emits no frame: the frames
\* and the number of events pulled stay as they were, and a closed generator
\* stays closed.
C18_ClosedStep ==
    /\ pc' = "closed" => (frames' = frames /\ nEvents' = nEvents)
    /\ pc = "closed" => pc' = "closed"

C18_NoFrameAfterClose == [][C18_ClosedStep]_vars

\* the generator was closed after a frame of the first event, with an event
\* left in the source and neither a finish nor an error frame emitted
C18_Witness ==
    /\ pc = "closed"
    /\ nEvents = 1
    /\ srcLen = 2
    /\ srcFailAt = 0
    /\ Len(frames) >= 2
    /\ TagsAt({"d", "3"}) = {}

\* the rank of a frame within its increment
Phase(tag) == IF tag = "0" THEN 1 ELSE IF tag = "b" THEN 2 ELSE 3

\* C19: the frames stand in the order of the events they were derived from,
\* and among the frames of one model-output increment the text-delta (0)
\* frame precedes every tool-call-start (b) frame, which precedes every
\* tool-call-args-delta (c) frame.
C19_FrameOrder ==
    /\ Len(origin) = Len(frames)
    /\ \A i, j \in 1..Len(frames) :
          i < j =>
              /\ origin[i] <= origin[j]
              /\ (/\ origin[i] = origin[j]
                  /\ frames[i].tag \in {"0", "b", "c"}
                  /\ frames[j].tag \in {"0", "b", "c"})
                 => Phase(frames[i].tag) <= Phase(frames[j].tag)

\* the second increment yielded a text-delta, a tool-call-start and a
\* tool-call-args-delta frame after a frame of the first event
C19_Witness ==
    /\ \E i \in 1..Len(frames) : origin[i] = 1
    /\ {frames[i].tag : i \in {k \in 1..Len(frames) : origin[k] = 2}}
          = {"0", "b", "c"}

\* ================================== lib/database.py, routes/attachment.py
\* the last value of the clock
MaxTime == 1

Users == {"u1", "u2"}
\* the userid header is missing
NoUser == ""
\* str(uuid.uuid4())
AttIds == {<<"a">>, <<"b">>}
\* the uuid the next upload draws: one that was never drawn (which one
\* makes no difference, the ids being interchangeable)
NewIds(used) ==
    IF <<"a">> \notin used THEN {<<"a">>} ELSE AttIds \ used
\* file.filename and file.content_type; "" stands for None
UploadNames == {"f.png", ""}
ContentTypes == {"image/png"}
\* the metadata of a request: None, {} or a dict with entries
Metadatas == {"none", "empty", "m1"}
AttachmentTypes == {"image/png", "image/jpeg"}

\* json.dumps(metadata) if metadata else None
MetadataJson(metadata) ==
    IF metadata \in {"none", "empty"} THEN "none" ELSE metadata

\* file.filename or "unknown"; file.content_type or "unknown"
OrUnknown(value) == IF value = "" THEN "unknown" ELSE value

\* f"{file.filename}"
Formatted(value) == IF value = "" THEN "None" ELSE value

\* lines 421-442: INSERT INTO attachments
create_attachment(rows, id, userid, filename, blob_name, type, metadata) ==
    rows \cup {Attachment(id, userid, filename, blob_name, type, now,
                          MetadataJson(metadata))}

\* update_attachment_metadata that also refreshes the row's timestamp
update_attachment_metadata_touch(rows, attachment_id, metadata) ==
    {IF row.id = attachment_id
     THEN [row EXCEPT !.metadata = MetadataJson(metadata), !.created_at = now]
     ELSE row : row \in rows}

\* lines 491-504: UPDATE attachments SET metadata = ? WHERE id = ?
update_attachment_metadata(rows, attachment_id, metadata) ==
    {IF row.id = attachment_id
     THEN [row EXCEPT !.metadata = MetadataJson(metadata)]
     ELSE row : row \in rows}

\* lines 506-516: UPDATE attachments SET type = ? WHERE id = ?
update_attachment_type(rows, attachment_id, attachment_type) ==
    {IF row.id = attachment_id
     THEN [row EXCEPT !.type = attachment_type]
     ELSE row : row \in rows}

\* lines 518-527: DELETE FROM attachments WHERE id = ?
delete_attachment(rows, attachment_id) ==
    {row \in rows : row.id # attachment_id}

\* lib/blob.py delete_file(blob_name): the blob is removed
delete_file(names, blob_name) == names \ {blob_name}

\* the reply to a request that was refused or failed
Failed(route, userid, attachment_id, status) ==
    [route |-> route, userid |-> userid, attachment_id |-> attachment_id,
     status |-> status, blob_url |-> NoUrl, url |-> NoUrl, made |-> <<>>]

\* the reply to a request that was served: the locator in the response, or
\* the url of the part returned and the calls made for it
Replied(route, userid, attachment_id, blob_url, url, made) ==
    [route |-> route, userid |-> userid, attachment_id |-> attachment_id,
     status |-> 200, blob_url |-> blob_url, url |-> url, made |-> made]

\* no attachment exists, change_file_to_url is not running
AttInit ==
    /\ EncIdle
    /\ MsgIdle
    /\ ResIdle
    /\ ConvIdle

\* time passes
Tick ==
    /\ now < MaxTime
    /\ now' = now + 1
    /\ reply' = NoReply
    /\ UNCHANGED <<blobs, created>>
    /\ UNCHANGED <<encVars, msgVars, resVars, convVars>>

\* routes/attachment.py lines 35-94: POST /: the blob is uploaded, then the
\* row is inserted under a new uuid; upload_file_to_blob may raise
UploadAttachment ==
    /\ \E userid \in Users \cup {NoUser}, name \in UploadNames,
          content_type \in ContentTypes, uploadRaises \in BOOLEAN :
          IF userid = NoUser
          THEN /\ UNCHANGED <<store, blobs, created>>
               /\ reply' = Failed("upload", userid, <<>>, 401)
          ELSE \E attachment_id \in NewIds({row.id : row \in created}) :
                  LET blob_name ==
                          BlobName(userid, attachment_id, Formatted(name))
                      rows == create_attachment(store, attachment_id, userid,
                                  OrUnknown(name), blob_name,
                                  OrUnknown(content_type), "none")
                  IN  IF uploadRaises
                      THEN /\ UNCHANGED <<store, blobs, created>>
                           /\ reply' = Failed("upload", userid, <<>>, 500)
                      ELSE /\ blobs' = blobs \cup {blob_name}
                           /\ store' = rows
                           /\ created' = created \cup (rows \ store)
                           /\ reply' = Replied("upload", userid, attachment_id,
                                               NoUrl, NoUrl, <<>>)
    /\ UNCHANGED <<rpc, given, inMsgs, processed_messages, new_content,
                   callLog, callBase, nRead, now>>
    /\ UNCHANGED <<encVars, msgVars, convVars>>

\* routes/attachment.py lines 97-147: GET /{attachment_id}: the row is read
\* and a locator is requested for its blob; get_file_temporary_link may
\* raise
GetAttachmentById ==
    /\ \E userid \in Users \cup {NoUser}, attachment_id \in AttIds,
          signRaises \in BOOLEAN :
          LET found == get_attachment(attachment_id)
          IN  IF userid = NoUser
              THEN reply' = Failed("get", userid, attachment_id, 401)
              ELSE IF found = {}
              THEN reply' = Failed("get", userid, attachment_id, 404)
              ELSE IF signRaises
              THEN reply' = Failed("get", userid, attachment_id, 500)
              ELSE LET attachment == CHOOSE row \in found : TRUE
                   IN  reply' = Replied("get", userid, attachment_id,
                                  NextSignedUrl(attachment.blob_name), NoUrl, <<>>)
    /\ UNCHANGED <<rpc, given, inMsgs, processed_messages, new_content,
                   callLog, callBase, nRead, store, blobs, created, now>>
    /\ UNCHANGED <<encVars, msgVars, convVars>>

\* routes/attachment.py lines 195-255: PATCH /{attachment_id}/metadata: the
\* row is updated, read again, and a locator is requested for its blob
PatchAttachmentMetadata ==
    /\ \E userid \in Users \cup {NoUser}, attachment_id \in AttIds,
          metadata \in Metadatas \ {"none"}, signRaises \in BOOLEAN :
          LET found == get_attachment(attachment_id)
          IN  IF userid = NoUser
              THEN /\ UNCHANGED store
                   /\ reply' = Failed("patch", userid, attachment_id, 401)
              ELSE IF found = {}
              THEN /\ UNCHANGED store
                   /\ reply' = Failed("patch", userid, attachment_id, 404)
              ELSE /\ store' = update_attachment_metadata(store, attachment_id,
                                                          metadata)
                   /\ IF signRaises
                      THEN reply' = Failed("patch", userid, attachment_id, 500)
                      ELSE LET updated_attachment == CHOOSE row \in found : TRUE
                           IN  reply' =
                                 Replied("patch", userid, attachment_id,
                                    NextSignedUrl(updated_attachment.blob_name),
                                    NoUrl, <<>>)
    /\ UNCHANGED <<rpc, given, inMsgs, processed_messages, new_content,
                   callLog, callBase, nRead, blobs, created, now>>
    /\ UNCHANGED <<encVars, msgVars, convVars>>

\* lib/database.py lines 506-516: db_manager.update_attachment_type
UpdateAttachmentType ==
    /\ \E attachment_id \in AttIds, attachment_type \in AttachmentTypes :
          store' = update_attachment_type(store, attachment_id, attachment_type)
    /\ reply' = NoReply
    /\ UNCHANGED <<rpc, given, inMsgs, processed_messages, new_content,
                   callLog, callBase, nRead, blobs, created, now>>
    /\ UNCHANGED <<encVars, msgVars, convVars>>

\* DeleteAttachment with the row deleted before the blob
DeleteAttachmentRowFirst ==
    /\ \E userid \in Users \cup {NoUser}, attachment_id \in AttIds,
          deleteRaises \in BOOLEAN :
          LET found == get_attachment(attachment_id)
          IN  IF userid = NoUser
              THEN /\ UNCHANGED <<store, blobs>>
                   /\ reply' = Failed("delete", userid, attachment_id, 401)
              ELSE IF found = {}
              THEN /\ UNCHANGED <<store, blobs>>
                   /\ reply' = Failed("delete", userid, attachment_id, 404)
              ELSE LET attachment == CHOOSE row \in found : TRUE
                   IN  /\ store' = delete_attachment(store, attachment_id)
                       /\ IF deleteRaises
                          THEN /\ UNCHANGED blobs
                               /\ reply' = Failed("delete", userid,
                                                  attachment_id, 500)
                          ELSE /\ blobs' = delete_file(blobs, attachment.blob_name)
                               /\ reply' = Replied("delete", userid,
                                              attachment_id, NoUrl, NoUrl, <<>>)
    /\ UNCHANGED <<rpc, given, inMsgs, processed_messages, new_content,
                   callLog, callBase, nRead, created, now>>
    /\ UNCHANGED <<encVars, msgVars, convVars>>

\* routes/attachment.py lines 257-308: DELETE /{attachment_id}: the blob is
\* deleted, then the row; delete_file may raise
DeleteAttachment ==
    /\ \E userid \in Users \cup {NoUser}, attachment_id \in AttIds,
          deleteRaises \in BOOLEAN :
          LET found == get_attachment(attachment_id)
          IN  IF userid = NoUser
              THEN /\ UNCHANGED <<store, blobs>>
                   /\ reply' = Failed("delete", userid, attachment_id, 401)
              ELSE IF found = {}
              THEN /\ UNCHANGED <<store, blobs>>
                   /\ reply' = Failed("delete", userid, attachment_id, 404)
              ELSE IF deleteRaises
              THEN /\ UNCHANGED <<store, blobs>>
                   /\ reply' = Failed("delete", userid, attachment_id, 500)
              ELSE LET attachment == CHOOSE row \in found : TRUE
                   IN  /\ blobs' = delete_file(blobs, attachment.blob_name)
                       /\ store' = delete_attachment(store, attachment_id)
                       /\ reply' = Replied("delete", userid, attachment_id,
                                           NoUrl, NoUrl, <<>>)
    /\ UNCHANGED <<rpc, given, inMsgs, processed_messages, new_content,
                   callLog, callBase, nRead, created, now>>
    /\ UNCHANGED <<encVars, msgVars, convVars>>

\* lib/langgraph.py lines 136-206: process_image_url_item is called for an
\* image part that refers to an attachment id, against the table as it is
\* now; the url of the part it returns and the calls it made are the reply
ResolveReference ==
    /\ \E attachment_id \in AttIds, signRaises \in BOOLEAN :
          LET item == ImagePart(Url("file://", attachment_id), "absent", "absent")
              r == process_image_url_item(item, FALSE, signRaises)
          IN  reply' = Replied("resolve", NoUser, attachment_id, NoUrl,
                               r.item.image_url.url, r.made)
    /\ UNCHANGED <<rpc, given, inMsgs, processed_messages, new_content,
                   callLog, callBase, nRead, store, blobs, created, now>>
    /\ UNCHANGED <<encVars, msgVars, convVars>>

AttNext ==
    \/ Tick
    \/ UploadAttachment
    \/ GetAttachmentById
    \/ PatchAttachmentMetadata
    \/ UpdateAttachmentType
    \/ DeleteAttachment
    \/ ResolveReference

SpecAttachments == AttInit /\ [][AttNext]_vars

\* ------------------------------------------------- attachments: the claims
\* the row of the given id as it was inserted
AsCreated(attachment_id) == CHOOSE row \in created : row.id = attachment_id

\* C20: every row of the attachments table has the id, userid, filename,
\* blob_name and created_at it was inserted with, whatever uploads, reads,
\* metadata updates, type updates and deletions have happened; only its
\* metadata and type may differ from the inserted values.
C20_RecordImmutable ==
    \A row \in store :
        /\ \E c \in created : c.id = row.id
        /\ \A other \in store : other.id = row.id => other = row
        /\ LET c == AsCreated(row.id)
           IN  /\ row.userid = c.userid
               /\ row.filename = c.filename
               /\ row.blob_name = c.blob_name
               /\ row.created_at = c.created_at

\* a row whose metadata and type were both updated after the clock moved on,
\* while the other attachment was uploaded and deleted
C20_Witness ==
    /\ \E row \in store :
          /\ row.metadata # AsCreated(row.id).metadata
          /\ row.type # AsCreated(row.id).type
          /\ row.created_at < now
    /\ \E c \in created : \A row \in store : row.id # c.id

\* ------------------------------ generate_stream: text, tool calls, chunks
\* the frames a step appended
Appended == SubSeq(frames', Len(frames) + 1, Len(frames'))

\* C23: the step that reads an increment appends, when the increment's text
\* is non-empty, exactly one frame, the text-delta (0) frame carrying that
\* text, and no frame when the text is empty; no other step appends a
\* text-delta frame.
C23_TextStep ==
    /\ Len(frames') >= Len(frames)
    /\ read'.kind = "ai" =>
          /\ nEvents' = nEvents + 1
          /\ frames' = IF read'.text # <<>>
                       THEN Append(frames, FrameText(read'.text))
                       ELSE frames
    /\ read'.kind # "ai" =>
          \A k \in 1..Len(Appended) : Appended[k].tag # "0"

C23_TextDeltaPerIncrement == [][C23_TextStep]_vars

\* two increments with text, each with its own text-delta frame, in a run
\* that ended
C23_Witness ==
    /\ pc = "done"
    /\ nEvents = 2
    /\ \E i, j \in TagsAt({"0"}) : origin[i] = 1 /\ origin[j] = 2

\* an increment with empty text after an increment with text
C23_WitnessEmpty ==
    /\ read = ReadContent(<<>>)
    /\ nEvents = 2
    /\ Cardinality(TagsAt({"0"})) = 1

\* the payloads of the text-delta frames among fs, concatenated in order
RECURSIVE AllText(_)
AllText(fs) ==
    IF fs = <<>> THEN <<>>
    ELSE IF Head(fs).tag = "0" THEN Head(fs).val \o AllText(Tail(fs))
         ELSE AllText(Tail(fs))

\* C24: in a message-finish (d) frame promptTokens and completionTokens are
\* the same number, the whitespace-delimited word count of the text formed by
\* concatenating the payloads of all text-delta frames in order.
C24_UsageIsWordCountOfAllText ==
    \A i \in TagsAt({"d"}) :
        /\ frames[i].val.promptTokens = frames[i].val.completionTokens
        /\ frames[i].val.promptTokens = WordCount(AllText(frames))

\* the tool-call-start (b) frames of a frame list that carry id
StartsOf(fs, id) == {i \in 1..Len(fs) : fs[i].tag = "b" /\ fs[i].id = id}

\* C25: no id has two tool-call-start (b) frames; the step that handles a real
\* announcement of an id already in tool_calls appends no frame and leaves
\* tool_calls (the id's name and accumulated args) as it was; the step that
\* handles the first real announcement of an id appends exactly one b frame,
\* with that id and name, and registers the name.
C25_AnnounceStep ==
    /\ \A id \in Ids : Cardinality(StartsOf(frames', id)) <= 1
    /\ (pc = "for_tool_call" /\ pc' # "closed" /\ Head(todo).name # "") =>
          LET id == Head(todo).id
              name == Head(todo).name
          IN  IF id \in DOMAIN tool_calls
              THEN frames' = frames /\ tool_calls' = tool_calls
              ELSE /\ frames' = Append(frames, FrameToolCallStart(id, name))
                   /\ DOMAIN tool_calls' = DOMAIN tool_calls \cup {id}
                   /\ tool_calls'[id].name = name
                   /\ \A other \in DOMAIN tool_calls :
                         tool_calls'[other] = tool_calls[other]

C25_OneStartPerId == [][C25_AnnounceStep]_vars

\* t1 was announced twice by the increments of one assistant message, the
\* second time after arguments had been accumulated for it
C25_Witness ==
    /\ announced = <<"t1", "t1">>
    /\ Cardinality(StartsOf(frames, "t1")) = 1
    /\ "t1" \in DOMAIN tool_calls
    /\ tool_calls["t1"].args = <<"x">>

\* C26: the step that reads the tool calls of an increment all of whose tool
\* calls are placeholders, and every step that handles a placeholder, leaves
\* tool_calls and current_message_tool_calls as they were and appends no
\* frame; the step that handles a real announcement appends its id, and
\* nothing else, to current_message_tool_calls.
C26_PlaceholderStep ==
    /\ (/\ pc = "tool_calls"
        /\ pc' = "for_tool_call"
        /\ \A k \in 1..Len(todo') : todo'[k].name = "") =>
          /\ current_message_tool_calls' = current_message_tool_calls
          /\ tool_calls' = tool_calls
          /\ frames' = frames
    /\ (pc = "for_tool_call" /\ pc' # "closed") =>
          IF Head(todo).name = ""
          THEN /\ current_message_tool_calls' = current_message_tool_calls
               /\ tool_calls' = tool_calls
               /\ frames' = frames
          ELSE current_message_tool_calls' =
                  Append(current_message_tool_calls, Head(todo).id)

C26_PlaceholdersChangeNothing == [][C26_PlaceholderStep]_vars

\* the tool calls of an increment, all placeholders, have been read while
\* the list held the id of an earlier announcement
C26_Witness ==
    /\ pc = "for_tool_call"
    /\ todo # <<>>
    /\ \A k \in 1..Len(todo) : todo[k].name = ""
    /\ current_message_tool_calls = <<"t1">>

\* a placeholder and a real announcement of one increment have been handled:
\* the list holds the real one
C26_WitnessMixed ==
    /\ pc = "tool_call_chunks"
    /\ nEvents = 1
    /\ nParts = 2
    /\ current_message_tool_calls = <<"t2">>
    /\ Cardinality(TagsAt({"b"})) = 1

\* C27: current_message_tool_calls holds the ids of the real tool calls that
\* the increments of the current assistant message have announced so far, in
\* the order of their announcement: it is emptied only when an increment of
\* a new assistant message announces a real tool call.
C27_ListOfCurrentMessage == current_message_tool_calls = announced

\* the position of the chunk a step read is an integer within the list:
\* 0 <= p < len(current_message_tool_calls)
InRange(index, list) ==
    index # <<>> /\ 0 <= index[1] /\ index[1] < Len(list)

\* C28: the step that handles a chunk with an integer position p appends a
\* tool-call-args-delta (c) frame only if 0 <= p < the length of
\* current_message_tool_calls, with the id at zero-based position p as its
\* toolCallId, and appends no frame for any other p.
C28_ChunkStep ==
    (read'.kind = "chunk" /\ read'.index # <<>>) =>
        LET list == current_message_tool_calls
            p == read'.index[1]
        IN  /\ \A k \in 1..Len(Appended) :
                  Appended[k].tag = "c" =>
                      /\ InRange(read'.index, list)
                      /\ Appended[k].id = list[p + 1]
            /\ ~InRange(read'.index, list) => frames' = frames

C28_ArgsDeltaOnlyInRange == [][C28_ChunkStep]_vars

\* C29: the step that handles a chunk whose position is no integer within
\* the list appends no frame, raises nothing, leaves tool_calls and
\* current_message_tool_calls as they were, and leaves the generator in the
\* loop over the chunks.
C29_UnresolvedChunkStep ==
    (/\ read'.kind = "chunk"
     /\ ~InRange(read'.index, current_message_tool_calls)) =>
        /\ frames' = frames
        /\ raised' = "none"
        /\ tool_calls' = tool_calls
        /\ current_message_tool_calls' = current_message_tool_calls
        /\ pc' = "tool_call_chunks"

C29_UnresolvedChunkIsSilent == [][C29_UnresolvedChunkStep]_vars

\* the argsTextDelta payloads of the c frames among fs that carry id,
\* concatenated in order
RECURSIVE ArgsText(_, _)
ArgsText(fs, id) ==
    IF fs = <<>> THEN <<>>
    ELSE IF Head(fs).tag = "c" /\ Head(fs).id = id
         THEN Head(fs).val \o ArgsText(Tail(fs), id)
         ELSE ArgsText(Tail(fs), id)

\* C30: after every step the args stored for an id are the concatenation of
\* the payloads of the c frames emitted for it; a c frame appended by the
\* step that handles a chunk carries the chunk's fragment, which is
\* non-empty; the step that handles a chunk with an empty fragment appends
\* no frame and leaves tool_calls as it was.
C30_FragmentStep ==
    /\ \A id \in DOMAIN tool_calls' :
          tool_calls'[id].args = ArgsText(frames', id)
    /\ read'.kind = "chunk" =>
          /\ \A k \in 1..Len(Appended) :
                Appended[k].tag = "c" =>
                    /\ read'.text # <<>>
                    /\ Appended[k].val = read'.text
          /\ read'.text = <<>> =>
                (frames' = frames /\ tool_calls' = tool_calls)

C30_ArgsDeltaIsFragment == [][C30_FragmentStep]_vars

\* ------------------------------------------- generate_stream: tool results
\* C31: every tool-result event appends exactly one a frame that carries the
\* event's invocation id and result, whether or not tool_calls knows the id,
\* and leaves tool_calls, current_message_tool_calls and token_count as they
\* were
C31_ToolResultStep ==
    read'.kind = "tool" =>
        /\ Len(frames') = Len(frames) + 1
        /\ SubSeq(frames', 1, Len(frames)) = frames
        /\ frames'[Len(frames')].tag = "a"
        /\ frames'[Len(frames')].id = read'.text[1]
        /\ frames'[Len(frames')].val = read'.text[2]
        /\ tool_calls' = tool_calls
        /\ current_message_tool_calls' = current_message_tool_calls
        /\ token_count' = token_count

C31_ToolResultFrame == [][C31_ToolResultStep]_vars

\* a result for an id that was never announced has been framed
C31_Witness ==
    /\ read.kind = "tool"
    /\ read.text[1] \notin DOMAIN tool_calls
    /\ frames[Len(frames)] = [tag |-> "a", id |-> read.text[1], val |-> read.text[2]]

\* a result for an announced id has been framed, the context as it was
C31_WitnessAnnounced ==
    /\ read.kind = "tool"
    /\ read.text = <<"t1", "">>
    /\ DOMAIN tool_calls = {"t1"}
    /\ current_message_tool_calls = <<"t1">>
    /\ frames[Len(frames)].tag = "a"

\* ------------------------------------- message functions: sanitizer again
\* C32: sanitizing the list the sanitizer returned returns it unchanged
C32_SanitizeIdempotent == op = "sanitize2" => result = prev

\* the second application, after the first dropped an incomplete turn, an
\* orphaned ToolMessage or a foreign answer and kept a complete turn
C32_Witness ==
    /\ op = "sanitize2"
    /\ Len(prev) < Len(messages)
    /\ \E i \in 1..Len(prev) : HasToolCalls(prev[i])

\* C33: validate_message_sequence accepts every list the sanitizer returns
C33_SanitizedIsValid == op = "validate" => valid

\* a list that validate_message_sequence rejects has been sanitized to a
\* non-empty list and validated
C33_Witness ==
    /\ op = "validate"
    /\ ~validate_message_sequence(messages)
    /\ result # <<>>
    /\ \E i \in 1..Len(result) : HasToolCalls(result[i])

\* --------------------------------- change_file_to_url: tool-call structure
\* C34: every message change_file_to_url hands on has the class of the
\* message it was given at that position and the tool_calls that message
\* had, also when the message was rebuilt around a new content list; a
\* call that returned handed on as many messages as it was given.
C34_ToolCallsPreserved ==
    /\ \A m \in 1..Len(processed_messages) :
          /\ processed_messages[m].type = given[m].type
          /\ processed_messages[m].tool_calls = given[m].tool_calls
    /\ rpc = "returned" => Len(processed_messages) = Len(given)

\* ------------------------------------------- attachments: delete and owner
\* the rows of the table with the given id
RowsOf(rows, attachment_id) == {row \in rows : row.id = attachment_id}

\* the row was inserted once and neither it nor its blob exists now
Gone(c, rows, names) == RowsOf(rows, c.id) = {} /\ c.blob_name \notin names

\* C35: a delete request that returns success was for an existing row and
\* leaves neither the row nor its blob; a row and blob that are gone stay
\* gone; resolving a reference to the id of a row that is gone returns the
\* part with its url as it was and requests no signed locator; a delete
\* request that fails because deleting the blob failed leaves the table as
\* it was.
C35_DeleteStep ==
    LET id == reply'.attachment_id
        rows == RowsOf(store, id)
    IN  /\ (reply'.route = "delete" /\ reply'.status = 200) =>
              /\ rows # {}
              /\ RowsOf(store', id) = {}
              /\ \A row \in rows : row.blob_name \notin blobs'
        /\ (reply'.route = "delete" /\ reply'.status = 500) =>
              /\ rows # {}
              /\ store' = store
        /\ \A c \in created : Gone(c, store, blobs) => Gone(c, store', blobs')
        /\ (/\ reply'.route = "resolve"
            /\ \E c \in created : c.id = id /\ Gone(c, store, blobs)) =>
              /\ reply'.url = Url("file://", id)
              /\ \A k \in 1..Len(reply'.made) :
                    reply'.made[k].fn # "get_file_temporary_link"

C35_DeletedStaysDeleted == [][C35_DeleteStep]_vars

\* a reference to a deleted attachment has been resolved, to itself, while
\* the other attachment exists
C35_Witness ==
    /\ reply.route = "resolve"
    /\ reply.url = Url("file://", reply.attachment_id)
    /\ \E c \in created : c.id = reply.attachment_id /\ Gone(c, store, blobs)
    /\ store # {}

\* a delete request has failed at the blob and the row is there
C35_WitnessBlobFails ==
    /\ reply.route = "delete"
    /\ reply.status = 500
    /\ RowsOf(store, reply.attachment_id) # {}

\* C37: a get, metadata-update or delete request that names a row owned by
\* another userid returns no signed locator and leaves the row and its
\* blob as they were.
C37_ForeignStep ==
    LET id == reply'.attachment_id
        rows == RowsOf(store, id)
    IN  (/\ reply'.route \in {"get", "patch", "delete"}
         /\ \E row \in rows : row.userid # reply'.userid) =>
            /\ reply'.blob_url = NoUrl
            /\ RowsOf(store', id) = rows
            /\ \A row \in rows : row.blob_name \in blobs => row.blob_name \in blobs'

C37_NoForeignAccess == [][C37_ForeignStep]_vars

\* ============================ lib/database.py, routes/chat_conversation.py
\* generate_uuid()
ConvIds == {"c1", "c2"}
\* get_text_from_contents(last_message['content'])
TitleTexts == {"", "hi"}

\* lines 45-53: the title of a new conversation
Title(text) == IF text = "" THEN "New Conversation" ELSE text

\* A row of the conversations table.
Conversation(id, userid, title, is_pinned, last_used_at) ==
    [id |-> id, userid |-> userid, title |-> title, is_pinned |-> is_pinned,
     last_used_at |-> last_used_at]

\* lines 174-191: INSERT INTO conversations
create_conversation(rows, conversation_id, userid, title) ==
    rows \cup {Conversation(conversation_id, userid, title, FALSE, now)}

\* lines 193-210: SELECT ... WHERE id = ? AND userid = ?
get_conversation(conversation_id, userid) ==
    {row \in conversations : row.id = conversation_id /\ row.userid = userid}

\* conversation_exists looking the row up by its id alone
conversation_exists_any(conversation_id, userid) ==
    \E row \in conversations : row.id = conversation_id

\* lines 295-303: SELECT 1 FROM conversations WHERE id = ? AND userid = ?
conversation_exists(conversation_id, userid) ==
    \E row \in conversations :
        row.id = conversation_id /\ row.userid = userid

\* lines 246-257: UPDATE conversations SET is_pinned = ? WHERE id = ? AND
\* userid = ?
pin_conversation(rows, conversation_id, userid, is_pinned) ==
    {IF row.id = conversation_id /\ row.userid = userid
     THEN [row EXCEPT !.is_pinned = is_pinned]
     ELSE row : row \in rows}

\* lines 270-282: UPDATE conversations SET last_used_at = ? WHERE id = ? AND
\* userid = ?
update_conversation_last_used(rows, conversation_id, userid) ==
    {IF row.id = conversation_id /\ row.userid = userid
     THEN [row EXCEPT !.last_used_at = now]
     ELSE row : row \in rows}

\* lines 284-293: DELETE FROM conversations WHERE id = ? AND userid = ?
delete_conversation(rows, conversation_id, userid) ==
    {row \in rows : ~(row.id = conversation_id /\ row.userid = userid)}

\* the reply to a conversation request: "error" is the dict with an error
\* entry, "404" and "500" are HTTPExceptions, stream says whether a
\* StreamingResponse over generate_stream was built
ConvReplied(route, userid, conversation_id, body, outcome, stream) ==
    [route |-> route, userid |-> userid, conversation_id |-> conversation_id,
     body |-> body, outcome |-> outcome, stream |-> stream]

ConvInit ==
    /\ EncIdle
    /\ MsgIdle
    /\ ResIdle
    /\ ConvIdle

\* time passes
ConvTick ==
    /\ now < MaxTime
    /\ now' = now + 1
    /\ convReply' = NoConvReply
    /\ UNCHANGED <<conversations, blobs, created, reply>>
    /\ UNCHANGED <<encVars, msgVars, resVars>>

\* routes/chat_conversation.py lines 24-68: POST /chat: a conversation is
\* created under a new uuid and the encoder is started
ChatCompletions ==
    /\ \E userid \in Users \cup {NoUser}, wellFormed \in BOOLEAN, text \in TitleTexts :
          IF userid = NoUser \/ ~wellFormed
          THEN /\ UNCHANGED conversations
               /\ convReply' =
                     ConvReplied("new", userid, "", TRUE, "error", FALSE)
          ELSE \E conversation_id \in
                      ConvIds \ {row.id : row \in conversations} :
                  /\ conversations' =
                        create_conversation(conversations, conversation_id,
                                            userid, Title(text))
                  /\ convReply' = ConvReplied("new", userid, conversation_id,
                                              TRUE, "ok", TRUE)
    /\ UNCHANGED <<encVars, msgVars, resVars, attVars>>

\* lines 106-130: GET /conversations/{conversation_id}:
\* graph.get_state_history may raise
GetChatHistory ==
    /\ \E userid \in Users \cup {NoUser}, conversation_id \in ConvIds,
          historyRaises \in BOOLEAN :
          IF userid = NoUser
          THEN /\ UNCHANGED conversations
               /\ convReply' = ConvReplied("history", userid, conversation_id,
                                           FALSE, "error", FALSE)
          ELSE IF ~conversation_exists(conversation_id, userid)
          THEN /\ UNCHANGED conversations
               /\ convReply' = ConvReplied("history", userid, conversation_id,
                                           FALSE, "404", FALSE)
          ELSE /\ conversations' =
                     update_conversation_last_used(conversations,
                                                   conversation_id, userid)
               /\ convReply' =
                     ConvReplied("history", userid, conversation_id, FALSE,
                                 IF historyRaises THEN "500" ELSE "ok", FALSE)
    /\ UNCHANGED <<encVars, msgVars, resVars, attVars>>

\* lines 132-171: POST /conversations/{conversation_id}/chat: body says
\* whether the request has a body, wellFormed whether its messages are a
\* non-empty list
ChatConversation ==
    /\ \E userid \in Users \cup {NoUser}, conversation_id \in ConvIds,
          body \in BOOLEAN, wellFormed \in BOOLEAN :
          IF userid = NoUser \/ ~body
          THEN /\ UNCHANGED conversations
               /\ convReply' = ConvReplied("chat", userid, conversation_id,
                                           body, "error", FALSE)
          ELSE IF ~conversation_exists(conversation_id, userid)
          THEN /\ UNCHANGED conversations
               /\ convReply' = ConvReplied("chat", userid, conversation_id,
                                           body, "404", FALSE)
          ELSE /\ conversations' =
                     update_conversation_last_used(conversations,
                                                   conversation_id, userid)
               /\ convReply' =
                     IF wellFormed
                     THEN ConvReplied("chat", userid, conversation_id, body,
                                      "ok", TRUE)
                     ELSE ConvReplied("chat", userid, conversation_id, body,
                                      "error", FALSE)
    /\ UNCHANGED <<encVars, msgVars, resVars, attVars>>

\* lines 172-185: DELETE /conversations/{conversation_id}
DeleteConversation ==
    /\ \E userid \in Users \cup {NoUser}, conversation_id \in ConvIds :
          IF userid = NoUser
          THEN /\ UNCHANGED conversations
               /\ convReply' = ConvReplied("delete", userid, conversation_id,
                                           FALSE, "error", FALSE)
          ELSE LET deleted == get_conversation(conversation_id, userid) # {}
               IN  /\ conversations' =
                         delete_conversation(conversations, conversation_id,
                                             userid)
                   /\ convReply' =
                         ConvReplied("delete", userid, conversation_id, FALSE,
                                     IF deleted THEN "ok" ELSE "404", FALSE)
    /\ UNCHANGED <<encVars, msgVars, resVars, attVars>>

\* lines 187-206: POST /conversations/{conversation_id}/pin
PinConversation ==
    /\ \E userid \in Users \cup {NoUser}, conversation_id \in ConvIds :
          LET found == get_conversation(conversation_id, userid)
          IN  IF userid = NoUser
              THEN /\ UNCHANGED conversations
                   /\ convReply' = ConvReplied("pin", userid, conversation_id,
                                               FALSE, "error", FALSE)
              ELSE IF found = {}
              THEN /\ UNCHANGED conversations
                   /\ convReply' = ConvReplied("pin", userid, conversation_id,
                                               FALSE, "404", FALSE)
              ELSE LET existing_data == CHOOSE row \in found : TRUE
                   IN  /\ conversations' =
                             pin_conversation(conversations, conversation_id,
                                              userid, ~existing_data.is_pinned)
                       /\ convReply' =
                             ConvReplied("pin", userid, conversation_id, FALSE,
                                         "ok", FALSE)
    /\ UNCHANGED <<encVars, msgVars, resVars, attVars>>

ConvNext ==
    \/ ConvTick
    \/ ChatCompletions
    \/ GetChatHistory
    \/ ChatConversation
    \/ DeleteConversation
    \/ PinConversation

SpecConversations == ConvInit /\ [][ConvNext]_vars

\* ----------------------------------------------- conversations: the claims
\* the rows of the table with the given id
ConvRows(rows, conversation_id) == {row \in rows : row.id = conversation_id}

\* the step handled a request by a user to read the history of, chat in,
\* pin or delete a conversation whose row belongs to another userid
ForeignRequest ==
    /\ convReply'.route \in {"history", "chat", "pin", "delete"}
    /\ convReply'.userid \in Users
    /\ \E row \in ConvRows(conversations, convReply'.conversation_id) :
          row.userid # convReply'.userid

\* the step started no encoder and left the conversation's row as it was
NothingDone ==
    /\ ~convReply'.stream
    /\ ConvRows(conversations', convReply'.conversation_id)
          = ConvRows(conversations, convReply'.conversation_id)

\* C36 as stated: every request by a user for a conversation of another
\* userid is answered 404, starts no encoder and leaves the conversation's
\* row (title, pin state, last_used_at, existence) unchanged.
C36_ForeignStep ==
    ForeignRequest => (convReply'.outcome = "404" /\ NothingDone)

C36_ForeignIs404 == [][C36_ForeignStep]_vars

\* C36, amended: every request by a user for a conversation of another
\* userid starts no encoder and leaves the conversation's row unchanged; it
\* is answered 404, except a chat request without a body, which is answered
\* with the error reply before the owner is looked at.
C36_ForeignStepAmended ==
    ForeignRequest =>
        /\ NothingDone
        /\ IF convReply'.route = "chat" /\ ~convReply'.body
           THEN convReply'.outcome = "error"
           ELSE convReply'.outcome = "404"

C36_ForeignRefused == [][C36_ForeignStepAmended]_vars

\* a chat request of u2 for a pinned conversation of u1 has been answered
\* 404, while u2 has a conversation of its own
C36_Witness ==
    /\ convReply.route = "chat"
    /\ convReply.userid = "u2"
    /\ convReply.outcome = "404"
    /\ \E row \in conversations :
          /\ row.id = convReply.conversation_id
          /\ row.userid = "u1"
          /\ row.is_pinned
    /\ \E row \in conversations : row.userid = "u2"

\* a chat request without a body for a conversation of another userid has
\* been answered with the error reply
C36_WitnessNoBody ==
    /\ convReply.route = "chat"
    /\ ~convReply.body
    /\ convReply.userid \in Users
    /\ convReply.outcome = "error"
    /\ \E row \in conversations :
          row.id = convReply.conversation_id /\ row.userid # convReply.userid

====
